---- MODULE Spec2Model ----
(***************************************************************************)
(* Model of port-kill (src/src/app.rs): the tray event loop of             *)
(* PortKillApp::run with its kill worker threads, the lsof based scan,     *)
(* and the kill functions kill_all_processes / kill_single_process /       *)
(* kill_process.                                                           *)
(*                                                                         *)
(* Five specifications share the variables:                                *)
(*   Spec         the tray event loop watching one port: the event-loop    *)
(*                thread, the kill workers, the user and the clock.        *)
(*   SpecLong     the same loop watching a range of more than 200 ports.   *)
(*   SpecMonitor  the event loop watching two ports while nobody uses the  *)
(*                menu: the periodic tick alone.                           *)
(*   SpecKill     a direct call of kill_all_processes or                   *)
(*                kill_single_process on either platform build.            *)
(*   SpecCall     SpecKill, or a direct call of get_processes_on_ports     *)
(*                or of a SmartFilter function on drawn inputs, or runs of *)
(*                the program that save or delete a preset.                *)
(* The processes of the OS are not state of the model: every command the   *)
(* program runs (lsof, netstat, ps, kill, taskkill) meets a process table  *)
(* of its own, drawn from Tables.                                          *)
(***************************************************************************)
EXTENDS Integers, Sequences, FiniteSets, TLC

(* ---------------------------------------------------------------------- *)
(* Bounds of the model                                                     *)
(* ---------------------------------------------------------------------- *)
MaxPort == 2
MaxPid == 2
MaxWorkers == 2
MaxChan == 1

(* ---------------------------------------------------------------------- *)
(* Program constants                                                       *)
(* ---------------------------------------------------------------------- *)
MAX_PORTS_PER_LSOF == 100
LARGE_RANGE_THRESHOLD == 200
CheckInterval == 5
MenuUpdateInterval == 10
InteractionCooldown == 2

Ports == 1..MaxPort
Pids == 1..MaxPid
Workers == 1..MaxWorkers
NoPid == 0
NoWorker == 0
MainThread == -1

VARIABLES
    platform,                       \* the build: "unix" or "windows"
    args,                           \* Args: ports, ignore_ports, ignore_processes
    protected,                      \* the OS: pids the user may not signal
    chan,                           \* menu_event_receiver: queued menu ids
    is_killing_processes,           \* the in-flight flag
    mpc,                            \* position of the event-loop thread
                                    \* ("exited": std::process::exit was called)
    last_check_elapsed,             \* seconds since last_check
    last_menu_update_elapsed,       \* seconds since last_menu_update
    last_menu_interaction_elapsed,  \* seconds since last_menu_interaction
    last_process_count,
    tick,                           \* locals of the running tick
    current_processes,              \* Mutex<HashMap<u16, ProcessInfo>>
    menu_id_to_port,                \* Mutex<HashMap<String, u16>>
    menu,                           \* the menu attached to the tray icon
    locks,                          \* holder of each of the three mutexes
    wk,                             \* the kill worker threads
    call                            \* a direct call of a scan or filter
                                    \* function: its inputs, position, result

vars == <<platform, args, protected, chan, is_killing_processes, mpc,
          last_check_elapsed, last_menu_update_elapsed,
          last_menu_interaction_elapsed, last_process_count, tick,
          current_processes, menu_id_to_port, menu, locks, wk, call>>

envVars == <<platform, args, protected, call>>

mainVars == <<chan, is_killing_processes, mpc, last_check_elapsed,
              last_menu_update_elapsed, last_menu_interaction_elapsed,
              last_process_count, tick, current_processes, menu_id_to_port,
              menu>>

(* ---------------------------------------------------------------------- *)
(* Helpers on maps and sequences                                           *)
(* ---------------------------------------------------------------------- *)
EmptyMap == [x \in {} |-> NoPid]

Range(f) == {f[x] : x \in DOMAIN f}

Insert(m, k, v) == [x \in DOMAIN m \cup {k} |-> IF x = k THEN v ELSE m[x]]

Contains(s, x) == \E i \in 1..Len(s) : s[i] = x

(* ---------------------------------------------------------------------- *)
(* The operating system: processes, ps, lsof, netstat, kill                *)
(* ---------------------------------------------------------------------- *)
\* Processes start, exit and take over ports at any time, so every command
\* the program runs sees a process table of its own: each action that runs
\* one draws its table from Tables.
Tables == [Ports -> Pids \cup {NoPid}]

Alive(p) == Range(p) \ {NoPid}


\* comm of a pid (the COMMAND column of lsof, ps -o comm=)
Comm(pid) == IF pid = 1 THEN "node" ELSE "python"

\* One whitespace-split output line, after the field conversions the parsers
\* apply: parts[0], parts[1].parse::<i32>(), the port after the last ':' of
\* parts[8], and parts.len().  -1 stands for a field that does not parse.
Line(name, pid, port, nparts) ==
    [name |-> name, pid |-> pid, port |-> port, nparts |-> nparts]

Header == Line("COMMAND", -1, -1, 9)

RECURSIVE LsofFrom(_, _, _)
LsofFrom(p, query, q) ==
    IF q > MaxPort THEN <<>>
    ELSE (IF q \in query /\ p[q] # NoPid
             THEN <<Line(Comm(p[q]), p[q], q, 10)>> ELSE <<>>)
         \o LsofFrom(p, query, q + 1)

\* stdout of `lsof -sTCP:LISTEN -P -n -i :port ...`: a header line and one
\* line per listening socket; nothing at all when no socket matches.
LsofOutput(p, query) ==
    LET ls == LsofFrom(p, query, 1)
    IN IF ls = <<>> THEN <<>> ELSE <<Header>> \o ls

\* `netstat -ano -p TCP`, LISTENING lines only (no header is kept by the
\* `contains("LISTENING")` test): Proto, Local Address, Foreign, State, PID
RECURSIVE NetstatFrom(_, _)
NetstatFrom(p, q) ==
    IF q > MaxPort THEN <<>>
    ELSE (IF p[q] # NoPid THEN <<Line(Comm(p[q]), p[q], q, 5)>> ELSE <<>>)
         \o NetstatFrom(p, q + 1)

NetstatOutput(p) == NetstatFrom(p, 1)

\* nix kill(pid, sig): Ok exactly when the pid exists and may be signalled
SignalDelivered(p, prot, pid) == pid \in Alive(p) /\ pid \notin prot

\* `ps -p pid` exit status; psOk = FALSE: the ps command could not be run
\* and .unwrap_or(false) answers for it
is_process_still_running(p, pid, psOk) == psOk /\ pid \in Alive(p)

(* ---------------------------------------------------------------------- *)
(* Scan: get_processes_on_ports and parse_lsof_output_filtered             *)
(* ---------------------------------------------------------------------- *)
ProcessInfo(pid, port, name) == [pid |-> pid, port |-> port, name |-> name]

SeqSet(s) == {s[i] : i \in 1..Len(s)}

\* variant of Chunks: one chunk per port, whatever the chunk size
ChunksPerPort(ports, n) == [i \in 1..Len(ports) |-> <<ports[i]>>]

\* ports.chunks(n)
RECURSIVE Chunks(_, _)
Chunks(ports, n) ==
    IF Len(ports) = 0 THEN <<>>
    ELSE IF Len(ports) <= n THEN <<ports>>
    ELSE <<SubSeq(ports, 1, n)>> \o Chunks(SubSeq(ports, n + 1, Len(ports)), n)

\* number of lsof invocations a scan or a bulk kill over `ports` makes
NumQueries(ports) ==
    IF Len(ports) > LARGE_RANGE_THRESHOLD THEN 1
    ELSE Len(Chunks(ports, MAX_PORTS_PER_LSOF))

\* variant of ParseLsofFrom: a line that does not parse ends the loop
\* (break for continue)
RECURSIVE ParseLsofStop(_, _, _, _, _, _)
ParseLsofStop(stdout, i, ports_filter, ignore_ports, ignore_processes, processes) ==
    IF i > Len(stdout) THEN processes
    ELSE LET l == stdout[i]
             skip == \/ (ports_filter # {} /\ l.port \notin ports_filter)
                     \/ l.port \in ignore_ports
                     \/ l.name \in ignore_processes
         IN IF l.nparts < 9 \/ l.pid = -1 \/ l.port = -1 THEN processes
            ELSE ParseLsofStop(stdout, i + 1, ports_filter, ignore_ports,
                     ignore_processes,
                     IF skip THEN processes
                     ELSE Insert(processes, l.port,
                                 ProcessInfo(l.pid, l.port, l.name)))

RECURSIVE ParseLsofFrom(_, _, _, _, _, _)
ParseLsofFrom(stdout, i, ports_filter, ignore_ports, ignore_processes, processes) ==
    IF i > Len(stdout) THEN processes
    ELSE LET l == stdout[i]
             skip == \/ l.nparts < 9
                     \/ l.pid = -1
                     \/ l.port = -1
                     \/ (ports_filter # {} /\ l.port \notin ports_filter)
                     \/ l.port \in ignore_ports
                     \/ l.name \in ignore_processes
         IN ParseLsofFrom(stdout, i + 1, ports_filter, ignore_ports,
                ignore_processes,
                IF skip THEN processes
                ELSE Insert(processes, l.port,
                            ProcessInfo(l.pid, l.port, l.name)))

\* variant of parse_lsof_output_filtered: the lines are not tested against
\* the requested ports
parse_lsof_output_unfiltered(stdout, ports_filter, ignore_ports, ignore_processes, processes) ==
    ParseLsofFrom(stdout, 2, {}, ignore_ports, ignore_processes, processes)

\* for line in stdout.lines().skip(1)
parse_lsof_output_filtered(stdout, ports_filter, ignore_ports, ignore_processes, processes) ==
    ParseLsofFrom(stdout, 2, ports_filter, ignore_ports, ignore_processes,
                  processes)

RECURSIVE ScanChunks(_, _, _, _, _, _)
ScanChunks(chunks, i, a, p, oks, processes) ==
    IF i > Len(chunks) THEN processes
    ELSE ScanChunks(chunks, i + 1, a, p, oks,
            IF oks[i]
            THEN parse_lsof_output_filtered(LsofOutput(p, SeqSet(chunks[i])),
                     SeqSet(a.ports), a.ignore_ports, a.ignore_processes,
                     processes)
            ELSE processes)

\* oks[i]: whether the i-th `lsof` command could be run
get_processes_on_ports_unix(a, p, oks) ==
    IF Len(a.ports) > LARGE_RANGE_THRESHOLD
    THEN IF oks[1]
         THEN parse_lsof_output_filtered(LsofOutput(p, Ports), SeqSet(a.ports),
                  a.ignore_ports, a.ignore_processes, EmptyMap)
         ELSE EmptyMap
    ELSE ScanChunks(Chunks(a.ports, MAX_PORTS_PER_LSOF), 1, a, p, oks, EmptyMap)

\* returns the map; the count of the returned pair is its number of keys
get_processes_on_ports(a, p, oks) ==
    IF Len(a.ports) = 0 THEN EmptyMap
    ELSE get_processes_on_ports_unix(a, p, oks)

OkChoices(a) == [1..NumQueries(a.ports) -> BOOLEAN]

(* ---------------------------------------------------------------------- *)
(* SmartFilter (src/src/smart_filter.rs).  In this part a string is the    *)
(* sequence of its characters, and an Option is a sequence of length 0     *)
(* (None) or 1 (Some).                                                     *)
(* ---------------------------------------------------------------------- *)
None == <<>>

Some(x) == <<x>>

\* a Result is a sequence as well: Err(_) has length 0, Ok(x) length 1
Err == <<>>

Ok(x) == <<x>>

Backslash == "\\"

LineFeed == "\n"

\* regex_syntax::is_meta_character, the characters regex::escape escapes
MetaChars ==
    {Backslash, ".", "+", "*", "?", "(", ")", "|", "[", "]", "{", "}", "^",
     "$", "#", "&", "-", "~"}

\* regex::escape(text)
RECURSIVE escape(_)
escape(text) ==
    IF text = <<>> THEN <<>>
    ELSE (IF Head(text) \in MetaChars THEN <<Backslash, Head(text)>>
          ELSE <<Head(text)>>) \o escape(Tail(text))

starts_with(s, t) == Len(t) <= Len(s) /\ SubSeq(s, 1, Len(t)) = t

\* str::contains
contains(s, t) ==
    \E i \in 0..(Len(s) - Len(t)) : SubSeq(s, i + 1, i + Len(t)) = t

\* str::replace(from, to): the non-overlapping matches, leftmost first
RECURSIVE replace(_, _, _)
replace(s, from, to) ==
    IF s = <<>> THEN <<>>
    ELSE IF starts_with(s, from)
    THEN to \o replace(SubSeq(s, Len(from) + 1, Len(s)), from, to)
    ELSE <<Head(s)>> \o replace(Tail(s), from, to)

\* variant of regex_pattern: the wildcard pattern is used as a regular
\* expression as it stands, without escaping
regex_pattern_raw(pattern) == pattern

\* escaped.replace(r"\*", ".*").replace(r"\?", ".")
regex_pattern(pattern) ==
    replace(replace(escape(pattern), <<Backslash, "*">>, <<".", "*">>),
            <<Backslash, "?">>, <<".">>)

\* Regex::new(&format!("^{}$", regex_pattern)): the atoms of the expression
\* between ^ and $, for the part of the regex syntax modelled: \c is the
\* character c, . is any character but a line feed, an ordinary character
\* is itself, and a * directly after an atom repeats it.  A backslash with
\* nothing after it and a * with nothing to repeat are errors of Regex::new;
\* the other operators of the syntax are not modelled and count as errors.
RECURSIVE RegexAtoms(_)
RegexAtoms(r) ==
    IF r = <<>> THEN <<>>
    ELSE LET esc == Head(r) = Backslash
             n == IF esc THEN 2 ELSE 1
             bad == \/ esc /\ Len(r) < 2
                    \/ /\ ~esc
                       /\ Head(r) \in MetaChars \ {".", "-", "#", "&", "~"}
             star == ~bad /\ Len(r) > n /\ r[n + 1] = "*"
             used == IF bad THEN 1 ELSE IF star THEN n + 1 ELSE n
         IN <<[kind |-> IF bad THEN "err"
                        ELSE IF ~esc /\ Head(r) = "." THEN "any" ELSE "lit",
               ch |-> IF esc /\ ~bad THEN r[2] ELSE Head(r),
               star |-> star]>>
            \o RegexAtoms(SubSeq(r, used + 1, Len(r)))

Regex_new(r) ==
    LET atoms == RegexAtoms(r)
    IN IF \E i \in 1..Len(atoms) : atoms[i].kind = "err" THEN Err
       ELSE Ok(atoms)

\* whether atoms[i..] match exactly text[j..]
RECURSIVE MatchFrom(_, _, _, _)
MatchFrom(atoms, i, text, j) ==
    IF i > Len(atoms) THEN j > Len(text)
    ELSE LET a == atoms[i]
             one == /\ j <= Len(text)
                    /\ IF a.kind = "any" THEN text[j] # LineFeed
                       ELSE text[j] = a.ch
         IN IF a.star
            THEN \/ MatchFrom(atoms, i + 1, text, j)
                 \/ one /\ MatchFrom(atoms, i, text, j + 1)
            ELSE one /\ MatchFrom(atoms, i + 1, text, j + 1)

\* Regex::is_match of an expression anchored by ^ and $
is_match(regex, text) == MatchFrom(regex, 1, text, 1)

\* variant of CompilePatterns: each compiled pattern replaces the ones
\* before it (compiled_patterns = vec![regex] for compiled_patterns.push)
CompilePatternsLast(ignore_patterns) ==
    IF ignore_patterns = None \/ ignore_patterns = Some(<<>>) THEN Ok(<<>>)
    ELSE LET last == Regex_new(regex_pattern(
                         ignore_patterns[1][Len(ignore_patterns[1])]))
         IN IF last = Err THEN Err ELSE Ok(<<last[1]>>)

\* the loop of SmartFilter::new over the patterns: the compiled patterns,
\* or Err when one Regex::new fails (the ? operator)
CompilePatterns(ignore_patterns) ==
    IF ignore_patterns = None THEN Ok(<<>>)
    ELSE LET compiled == [i \in 1..Len(ignore_patterns[1]) |->
                             Regex_new(regex_pattern(ignore_patterns[1][i]))]
         IN IF \E i \in 1..Len(compiled) : compiled[i] = Err THEN Err
            ELSE Ok([i \in 1..Len(compiled) |-> compiled[i][1]])

SmartFilter_new(ignore_ports, ignore_processes, ignore_patterns, ignore_groups, only_groups) ==
    LET compiled_patterns == CompilePatterns(ignore_patterns)
    IN IF compiled_patterns = Err THEN Err
       ELSE Ok([ignore_ports |-> ignore_ports,
                ignore_processes |-> ignore_processes,
                ignore_patterns |-> compiled_patterns[1],
                ignore_groups |-> ignore_groups,
                only_groups |-> only_groups])

\* variant of IgnoreRule: only the two list checks the scan and the kill
\* functions of app.rs make
IgnoreRuleListsOnly(filter, process_info) ==
    IF process_info.port \in filter.ignore_ports THEN 1
    ELSE IF process_info.name \in filter.ignore_processes THEN 2
    ELSE 0

\* the check of should_ignore_process that returns true first, in the order
\* of the code; 0 when the function reaches its final `false`
IgnoreRule(filter, process_info) ==
    IF process_info.port \in filter.ignore_ports THEN 1
    ELSE IF process_info.name \in filter.ignore_processes THEN 2
    ELSE IF \E i \in 1..Len(filter.ignore_patterns) :
               \/ is_match(filter.ignore_patterns[i], process_info.name)
               \/ is_match(filter.ignore_patterns[i], process_info.command)
    THEN 3
    ELSE IF /\ process_info.process_group # None
            /\ process_info.process_group[1] \in filter.ignore_groups
    THEN 4
    ELSE IF /\ filter.only_groups # None
            /\ \/ process_info.process_group = None
               \/ process_info.process_group[1] \notin filter.only_groups[1]
    THEN 5
    ELSE 0

should_ignore_process(filter, process_info) ==
    IgnoreRule(filter, process_info) # 0

\* processes.retain(|_, process_info| !self.should_ignore_process(process_info))
filter_processes(filter, processes) ==
    [q \in {k \in DOMAIN processes :
               ~should_ignore_process(filter, processes[k])} |-> processes[q]]

\* the characters of the command names the model's processes have
Str(name) ==
    CASE name = "node" -> <<"n", "o", "d", "e">>
      [] name = "python" -> <<"p", "y", "t", "h", "o", "n">>
      [] OTHER -> <<>>

UpperCase == <<"A", "B", "C", "D", "E", "F", "G", "H", "I", "J", "K", "L", "M">> \o
             <<"N", "O", "P", "Q", "R", "S", "T", "U", "V", "W", "X", "Y", "Z">>

LowerCase == <<"a", "b", "c", "d", "e", "f", "g", "h", "i", "j", "k", "l", "m">> \o
             <<"n", "o", "p", "q", "r", "s", "t", "u", "v", "w", "x", "y", "z">>

\* str::to_lowercase, on ASCII
to_lowercase(s) ==
    [i \in 1..Len(s) |->
        IF \E k \in 1..Len(UpperCase) : UpperCase[k] = s[i]
        THEN LowerCase[CHOOSE k \in 1..Len(UpperCase) : UpperCase[k] = s[i]]
        ELSE s[i]]

\* ProcessInfo::determine_process_group
determine_process_group(name, command) ==
    LET name_lower == to_lowercase(name)
        command_lower == to_lowercase(command)
        either(w) == contains(name_lower, w) \/ contains(command_lower, w)
    IN IF either(<<"n", "o", "d", "e">>) THEN Some("Node.js")
       ELSE IF either(<<"p", "y", "t", "h", "o", "n">>) THEN Some("Python")
       ELSE IF either(<<"j", "a", "v", "a">>) THEN Some("Java")
       ELSE IF \/ name_lower = <<"g", "o">>
               \/ name_lower = <<"g", "o", "l", "a", "n", "g">>
               \/ starts_with(command_lower, <<"g", "o", " ">>)
               \/ contains(command_lower, <<" ", "g", "o", " ">>)
       THEN Some("Go")
       ELSE IF \/ contains(name_lower, <<"r", "u", "s", "t">>)
               \/ contains(command_lower, <<"c", "a", "r", "g", "o">>)
       THEN Some("Rust")
       ELSE IF either(<<"p", "h", "p">>) THEN Some("PHP")
       ELSE IF either(<<"r", "u", "b", "y">>) THEN Some("Ruby")
       ELSE IF either(<<"d", "o", "c", "k", "e", "r">>) THEN Some("Docker")
       ELSE IF \/ contains(name_lower, <<"n", "g", "i", "n", "x">>)
               \/ contains(command_lower, <<"a", "p", "a", "c", "h", "e">>)
       THEN Some("Web Server")
       ELSE IF \/ contains(name_lower, <<"p", "o", "s", "t", "g", "r", "e", "s">>)
               \/ contains(name_lower, <<"m", "y", "s", "q", "l">>)
               \/ contains(name_lower, <<"r", "e", "d", "i", "s">>)
       THEN Some("Database")
       ELSE None

\* the crate::types::ProcessInfo that parse_lsof_output_filtered builds from
\* an lsof line: command and name are parts[0], the group is derived
ProcessRecord(pid, port, name) ==
    [pid |-> pid, port |-> port, name |-> Str(name), command |-> Str(name),
     process_group |-> determine_process_group(Str(name), Str(name))]

\* the rule sets a user configuration with the ignore ports and the ignore
\* process names of `a` can have
RuleSetsOf(a) ==
    {SmartFilter_new(a.ignore_ports, {Str(n) : n \in a.ignore_processes},
                     pats, grps, only)[1] :
        pats \in {None, Some(<<<<"n", "o", "d", "e", "*">>>>)},
        grps \in {{}, {"Python"}},
        only \in {None, Some({"Node.js"})}}

(* ---------------------------------------------------------------------- *)
(* PresetManager (src/src/preset_manager.rs).  The presets file is absent  *)
(* (None) or holds (Some) a JSON object: one member per preset name.       *)
(* ---------------------------------------------------------------------- *)
\* the fields of PortPreset the model keeps
PortPreset(name, description, ports, ignore_ports) ==
    [name |-> name, description |-> description, ports |-> ports,
     ignore_ports |-> ignore_ports]

\* #[derive(Serialize)]: an Option is written as null or as its value
to_json(preset) ==
    [name |-> [t |-> "string", v |-> preset.name],
     description |-> [t |-> "string", v |-> preset.description],
     ports |-> [t |-> "array", v |-> preset.ports],
     ignore_ports |-> IF preset.ignore_ports = None THEN [t |-> "null"]
                      ELSE [t |-> "array", v |-> preset.ignore_ports[1]]]

\* #[derive(Deserialize)]
from_json(object) ==
    PortPreset(object.name.v, object.description.v, object.ports.v,
               IF object.ignore_ports.t = "null" THEN None
               ELSE Some(object.ignore_ports.v))

PresetManager_new == [presets |-> EmptyMap, default_preset_names |-> {}]

\* two of the six built-in presets: "dev" and "minimal"
DefaultPresets ==
    [n \in {"dev", "minimal"} |->
        IF n = "dev"
        THEN PortPreset("dev", "Common development ports",
                 <<3000, 3001, 3002, 4321, 5000, 8000, 8080, 9000>>,
                 Some(<<5353, 7000>>))
        ELSE PortPreset("minimal", "Essential development ports only",
                 <<3000, 8080, 4321>>, None)]

\* add_default(name, preset) for each built-in preset
load_default_presets(mgr) ==
    [presets |-> [n \in DOMAIN mgr.presets \cup DOMAIN DefaultPresets |->
                     IF n \in DOMAIN DefaultPresets THEN DefaultPresets[n]
                     ELSE mgr.presets[n]],
     default_preset_names |->
        mgr.default_preset_names \cup DOMAIN DefaultPresets]

\* the defaults, then every member of the file inserted under its name
load_presets(mgr, file) ==
    LET loaded == load_default_presets(mgr)
    IN IF file = None THEN loaded
       ELSE [loaded EXCEPT !.presets =
                [n \in DOMAIN loaded.presets \cup DOMAIN file[1] |->
                    IF n \in DOMAIN file[1] THEN from_json(file[1][n])
                    ELSE loaded.presets[n]]]

\* the file save_presets writes: the presets whose name is not in
\* default_preset_names
save_presets(mgr) ==
    Some([n \in DOMAIN mgr.presets \ mgr.default_preset_names |->
             to_json(mgr.presets[n])])

\* self.presets.insert(preset.name.clone(), preset)
add_preset(mgr, preset) ==
    [mgr EXCEPT !.presets = Insert(mgr.presets, preset.name, preset)]

\* self.presets.remove(name): the manager left; Some(_) is returned exactly
\* when the name was a key
remove_preset(mgr, name) ==
    [mgr EXCEPT !.presets = [n \in DOMAIN mgr.presets \ {name} |->
                                mgr.presets[n]]]

(* ---------------------------------------------------------------------- *)
(* Kill: extract_pids_*, kill_all_processes, kill_single_process,          *)
(* kill_process.  A call runs on a worker thread w; wk[w] holds its frame. *)
(* ---------------------------------------------------------------------- *)
\* no menu event: the worker has none, or has consumed it in its dispatch
NoEvent == -1

\* no direct call of a scan or filter function is modelled
NoCall == [fn |-> "none"]

NoKp == [pid |-> NoPid, term |-> "none", waited |-> FALSE, alive |-> "na",
         forced |-> "none", ret |-> "none", log |-> "none"]

IdleWorker == [pc |-> "idle", event |-> NoEvent, fn |-> "none", target |-> NoPid,
               pids |-> <<>>, found |-> 0, kp |-> NoKp, outcomes |-> <<>>,
               result |-> "none", tools |-> 0]

RECURSIVE ExtractLsofFrom(_, _, _, _, _, _)
ExtractLsofFrom(stdout, i, ports_filter, ignore_ports, ignore_processes, pids_to_kill) ==
    IF i > Len(stdout) THEN pids_to_kill
    ELSE LET l == stdout[i]
             skip == \/ l.nparts < 9
                     \/ l.pid = -1
                     \/ l.port = -1
                     \/ (ports_filter # {} /\ l.port \notin ports_filter)
                     \/ l.port \in ignore_ports
                     \/ l.name \in ignore_processes
                     \/ Contains(pids_to_kill, l.pid)
         IN ExtractLsofFrom(stdout, i + 1, ports_filter, ignore_ports,
                ignore_processes,
                IF skip THEN pids_to_kill ELSE Append(pids_to_kill, l.pid))

\* for line in stdout.lines().skip(1)
extract_pids_from_lsof_output(stdout, ports_filter, ignore_ports, ignore_processes, pids_to_kill) ==
    ExtractLsofFrom(stdout, 2, ports_filter, ignore_ports, ignore_processes,
                    pids_to_kill)

RECURSIVE ExtractNetstatFrom(_, _, _, _, _, _)
ExtractNetstatFrom(stdout, i, ports_filter, ignore_ports, ignore_processes, pids_to_kill) ==
    IF i > Len(stdout) THEN pids_to_kill
    ELSE LET l == stdout[i]
             skip == \/ l.nparts < 5
                     \/ l.port = -1
                     \/ (ports_filter # {} /\ l.port \notin ports_filter)
                     \/ l.port \in ignore_ports
                     \/ l.pid = -1
                     \/ l.name \in ignore_processes
                     \/ Contains(pids_to_kill, l.pid)
         IN ExtractNetstatFrom(stdout, i + 1, ports_filter, ignore_ports,
                ignore_processes,
                IF skip THEN pids_to_kill ELSE Append(pids_to_kill, l.pid))

\* for line in stdout.lines(): no line is skipped by position
extract_pids_from_netstat_output(stdout, ports_filter, ignore_ports, ignore_processes, pids_to_kill) ==
    ExtractNetstatFrom(stdout, 1, ports_filter, ignore_ports,
                       ignore_processes, pids_to_kill)

RECURSIVE KillChunks(_, _, _, _, _, _)
KillChunks(chunks, i, a, p, oks, pids_to_kill) ==
    IF i > Len(chunks) THEN pids_to_kill
    ELSE KillChunks(chunks, i + 1, a, p, oks,
            IF oks[i]
            THEN extract_pids_from_lsof_output(
                     LsofOutput(p, SeqSet(chunks[i])), SeqSet(a.ports),
                     a.ignore_ports, a.ignore_processes, pids_to_kill)
            ELSE pids_to_kill)

\* the enumeration part of kill_all_processes_unix: the pids to kill, or
\* "Err" when the single lsof call of the large-range branch cannot be run
KillAllPidsUnix(a, p, oks) ==
    IF Len(a.ports) > LARGE_RANGE_THRESHOLD
    THEN IF oks[1]
         THEN [err |-> FALSE,
               pids |-> extract_pids_from_lsof_output(LsofOutput(p, Ports),
                            SeqSet(a.ports), a.ignore_ports,
                            a.ignore_processes, <<>>)]
         ELSE [err |-> TRUE, pids |-> <<>>]
    ELSE [err |-> FALSE,
          pids |-> KillChunks(Chunks(a.ports, MAX_PORTS_PER_LSOF), 1, a, p,
                              oks, <<>>)]

\* the enumeration part of kill_all_processes_windows
KillAllPidsWindows(a, p, ok) ==
    IF ok
    THEN [err |-> FALSE,
          pids |-> extract_pids_from_netstat_output(NetstatOutput(p),
                       SeqSet(a.ports), a.ignore_ports, a.ignore_processes,
                       <<>>)]
    ELSE [err |-> TRUE, pids |-> <<>>]

\* kill_all_processes up to the kill loop, from the enumeration result e
KillAllStart(wr, a, e) ==
    IF e.err THEN [wr EXCEPT !.result = "Err", !.pc = "result"]
    ELSE IF e.pids = <<>> THEN [wr EXCEPT !.result = "Ok", !.pc = "result"]
    ELSE [wr EXCEPT !.pids = e.pids, !.found = Len(e.pids), !.pc = "loop"]

KillAllEnum(w) ==
    /\ wk[w].pc = "kill_all"
    /\ IF Len(args.ports) = 0
       THEN wk' = [wk EXCEPT ![w].result = "Ok", ![w].pc = "result"]
       ELSE \E e \in (IF platform = "windows"
                      THEN {KillAllPidsWindows(args, p, ok) :
                               p \in Tables, ok \in BOOLEAN}
                      ELSE {KillAllPidsUnix(args, p, oks) :
                               p \in Tables, oks \in OkChoices(args)}) :
               wk' = [wk EXCEPT ![w] =
                         [KillAllStart(wk[w], args, e) EXCEPT
                             !.tools = IF platform = "windows" THEN 1
                                       ELSE NumQueries(args.ports)]]
    /\ UNCHANGED <<envVars, mainVars, locks>>

\* for pid in pids_to_kill { match Self::kill_process(pid) {..} }
KillLoop(w) ==
    /\ wk[w].pc = "loop"
    /\ IF wk[w].pids = <<>>
       THEN wk' = [wk EXCEPT ![w].result = "Ok", ![w].pc = "result"]
       ELSE wk' = [wk EXCEPT ![w].kp = [NoKp EXCEPT !.pid = Head(wk[w].pids)],
                             ![w].pids = Tail(@),
                             ![w].pc = IF platform = "windows"
                                       THEN "taskkill" ELSE "term"]
    /\ UNCHANGED <<envVars, mainVars, locks>>

\* lsof -p <pid> -i -P -n: without -a lsof ORs its selections, so the
\* listing holds the Internet sockets of every process
LsofPidInet(p, pid) == {q \in Ports : p[q] # NoPid}

\* ps and lsof exist on unix only: on windows neither command can be run
ToolRuns == IF platform = "windows" THEN {FALSE} ELSE BOOLEAN

\* the ignore checks of kill_single_process; psOk, lsofOk: the command ran
SingleIgnored(a, p, pid, psOk, lsofOk) ==
    LET process_name == IF pid \in Alive(p) THEN Comm(pid) ELSE ""
    IN \/ psOk /\ process_name \in a.ignore_processes
       \/ lsofOk /\ LsofPidInet(p, pid) \cap a.ignore_ports # {}

\* kill_single_process up to its call of kill_process
KillSingleCheck(w) ==
    /\ wk[w].pc = "kill_single"
    /\ \E ignored \in {SingleIgnored(args, p, wk[w].target, psOk, lsofOk) :
                           p \in Tables, psOk \in ToolRuns, lsofOk \in ToolRuns} :
          wk' = [wk EXCEPT ![w] =
                    IF ignored THEN [@ EXCEPT !.result = "Ok", !.pc = "result"]
                    ELSE [@ EXCEPT !.kp = [NoKp EXCEPT !.pid = wk[w].target],
                                   !.pc = IF platform = "windows"
                                          THEN "taskkill" ELSE "term"]]
    /\ UNCHANGED <<envVars, mainVars, locks>>

\* variant of AfterKillProcess: a kill whose SIGKILL could not be delivered
\* is tried again from the SIGTERM
AfterKillProcessRetry(wr, kp2) ==
    IF kp2.forced = "err" THEN [wr EXCEPT !.kp = kp2, !.pc = "term"]
    ELSE IF wr.fn = "kill_all"
    THEN [wr EXCEPT !.kp = kp2, !.outcomes = Append(@, kp2.log), !.pc = "loop"]
    ELSE [wr EXCEPT !.kp = kp2, !.result = kp2.ret, !.pc = "result"]

\* variant of AfterKillProcess: the bulk kill gives up at the first pid
\* whose kill failed (return Err(e) in the Err arm of the loop)
AfterKillProcessAbort(wr, kp2) ==
    IF wr.fn = "kill_all"
    THEN IF kp2.forced = "err"
         THEN [wr EXCEPT !.kp = kp2, !.outcomes = Append(@, kp2.log),
                         !.result = "Err", !.pc = "result"]
         ELSE [wr EXCEPT !.kp = kp2, !.outcomes = Append(@, kp2.log),
                         !.pc = "loop"]
    ELSE [wr EXCEPT !.kp = kp2, !.result = kp2.ret, !.pc = "result"]

\* what the caller does with the value kill_process returned
AfterKillProcess(wr, kp2) ==
    IF wr.fn = "kill_all"
    THEN [wr EXCEPT !.kp = kp2, !.outcomes = Append(@, kp2.log), !.pc = "loop"]
    ELSE [wr EXCEPT !.kp = kp2, !.result = kp2.ret, !.pc = "result"]

\* variant of KpAfterTerm: a SIGTERM that cannot be delivered is returned to
\* the caller as an error (return Err(e) in the Err arm)
KpAfterTermAbort(kp, delivered) ==
    IF delivered THEN [kp EXCEPT !.term = "ok"]
    ELSE [kp EXCEPT !.term = "err", !.log = "term_failed", !.ret = "Err"]

\* kill(Pid::from_raw(pid), Signal::SIGTERM): both arms fall through
KpAfterTerm(kp, delivered) ==
    [kp EXCEPT !.term = IF delivered THEN "ok" ELSE "err"]

\* the outcomes a signal sent to pid now can have
Delivery(pid) == {SignalDelivered(p, protected, pid) : p \in Tables}

\* the answers is_process_still_running(pid) can give now
StillRunning(pid) ==
    {is_process_still_running(p, pid, psOk) : p \in Tables, psOk \in BOOLEAN}

\* the unix kill_process up to its grace wait
KP_Term(w) ==
    /\ wk[w].pc = "term"
    /\ \E delivered \in Delivery(wk[w].kp.pid) :
          LET kp2 == KpAfterTerm(wk[w].kp, delivered)
          IN wk' = [wk EXCEPT ![w] =
                 IF kp2.ret = "none" THEN [@ EXCEPT !.kp = kp2, !.pc = "wait"]
                 ELSE AfterKillProcess(@, kp2)]
    /\ UNCHANGED <<envVars, mainVars, locks>>

\* variant of KpAfterCheck: the result of the re-check is not used and the
\* escalation always follows
KpAfterCheckAlways(kp, still_running) ==
    [kp EXCEPT !.alive = IF still_running THEN "yes" ELSE "no"]

\* let still_running = ps -p pid; if still_running {..} else {..; Ok(())}
KpAfterCheck(kp, still_running) ==
    IF still_running THEN [kp EXCEPT !.alive = "yes"]
    ELSE [kp EXCEPT !.alive = "no", !.log = "graceful", !.ret = "Ok"]

\* variant of KpAfterKill: a SIGKILL that cannot be delivered is returned to
\* the caller as an error
KpAfterKillRaise(kp, delivered) ==
    [kp EXCEPT !.forced = IF delivered THEN "ok" ELSE "err",
               !.log = IF delivered THEN "forced" ELSE "forced_failed",
               !.ret = IF delivered THEN "Ok" ELSE "Err"]

\* kill(Pid::from_raw(pid), Signal::SIGKILL), then Ok(())
KpAfterKill(kp, delivered) ==
    [kp EXCEPT !.forced = IF delivered THEN "ok" ELSE "err",
               !.log = IF delivered THEN "forced" ELSE "forced_failed",
               !.ret = "Ok"]

\* the unix kill_process from the end of its grace wait
\* (std::thread::sleep(Duration::from_millis(500))) to its return;
\* the process table can change between the ps check and the SIGKILL
KP_Finish(w) ==
    /\ wk[w].pc = "wait"
    /\ \E still_running \in StillRunning(wk[w].kp.pid),
          delivered \in Delivery(wk[w].kp.pid) :
          LET kpc == KpAfterCheck([wk[w].kp EXCEPT !.waited = TRUE],
                                  still_running)
          IN wk' = [wk EXCEPT ![w] =
                       AfterKillProcess(@, IF kpc.ret = "none"
                                           THEN KpAfterKill(kpc, delivered)
                                           ELSE kpc)]
    /\ UNCHANGED <<envVars, mainVars, locks>>

\* the windows kill_process: taskkill /PID pid /F, then Ok(())
KpTaskkill(kp, delivered) ==
    [kp EXCEPT !.forced = IF delivered THEN "ok" ELSE "err",
               !.log = IF delivered THEN "forced" ELSE "forced_failed",
               !.ret = "Ok"]

KP_Taskkill(w) ==
    /\ wk[w].pc = "taskkill"
    /\ \E execOk \in BOOLEAN, d \in Delivery(wk[w].kp.pid) :
          wk' = [wk EXCEPT ![w] =
                    AfterKillProcess(@, KpTaskkill(@.kp, execOk /\ d))]
    /\ UNCHANGED <<envVars, mainVars, locks>>

(* ---------------------------------------------------------------------- *)
(* SpecKill: one direct call of kill_all_processes(ports, args) or         *)
(* kill_single_process(pid, args), on a unix or a windows build            *)
(* ---------------------------------------------------------------------- *)
NoTick == [scan_failed |-> FALSE, process_count |-> 0, processes |-> EmptyMap,
           process_count_changed |-> FALSE, enough_time_passed |-> FALSE,
           not_killing |-> FALSE, no_recent_interaction |-> FALSE,
           live |-> {}, valid_processes |-> EmptyMap,
           new_menu |-> EmptyMap, new_menu_id_to_port |-> EmptyMap]

NoMenu == [attached |-> FALSE, items |-> EmptyMap]

LongPorts == [i \in 1..(LARGE_RANGE_THRESHOLD + 1) |-> i]

\* n consecutive ports from port `from` on
PortRange(from, n) == [i \in 1..n |-> from + i - 1]

MakeArgs(ports, ignore_ports, ignore_processes) ==
    [ports |-> ports, ignore_ports |-> ignore_ports,
     ignore_processes |-> ignore_processes]

KillArgs ==
    {MakeArgs(ps, ip, ipr) :
        ps \in {<<>>, <<1>>, <<1, 2>>, PortRange(2, MAX_PORTS_PER_LSOF + 1),
                LongPorts},
        ip \in {{}, {1}},
        ipr \in {{}, {"node"}}}

InitMain ==
    /\ chan = <<>>
    /\ is_killing_processes = FALSE
    /\ last_check_elapsed = 0
    /\ last_menu_update_elapsed = 0
    /\ last_menu_interaction_elapsed = InteractionCooldown
    /\ last_process_count = 0
    /\ tick = NoTick
    /\ current_processes = EmptyMap
    /\ menu_id_to_port = EmptyMap
    /\ menu = [attached |-> TRUE, items |-> EmptyMap]
    /\ locks = [current_processes |-> NoWorker, menu_id_to_port |-> NoWorker,
                tray_icon |-> NoWorker]

InitKill ==
    /\ call = NoCall
    /\ platform \in {"unix", "windows"}
    /\ args \in KillArgs
    /\ protected \in SUBSET Pids
    /\ InitMain
    /\ mpc = "off"
    /\ \E fn \in {"kill_all", "kill_single"}, pid \in Pids :
          /\ fn = "kill_all" => pid = 1
          /\ wk = [w \in Workers |->
                     IF w = 1
                     THEN [IdleWorker EXCEPT !.pc = fn, !.fn = fn,
                              !.target = IF fn = "kill_single" THEN pid
                                         ELSE NoPid]
                     ELSE IdleWorker]

UnixKillCall(w) ==
    \/ KillAllEnum(w)
    \/ KillLoop(w)
    \/ KillSingleCheck(w)
    \/ KP_Term(w)
    \/ KP_Finish(w)

KillCall(w) ==
    \/ UnixKillCall(w)
    \/ KP_Taskkill(w)

NextKill == \E w \in Workers : KillCall(w)

SpecKill == InitKill /\ [][NextKill]_vars

C9_NeverRaises ==
    \A w \in Workers :
       LET kp == wk[w].kp
       IN /\ kp.ret # "none" => kp.ret = "Ok"
          /\ wk[w].fn = "kill_single" /\ wk[w].pc = "result"
                => wk[w].result = "Ok"
          /\ platform = "unix" /\ kp.term = "err" /\ kp.ret # "none"
                => kp.waited /\ kp.alive # "na"

\* C9 witness: neither SIGTERM nor SIGKILL could be delivered and
\* kill_single_process has returned Ok
C9_Witness ==
    \E w \in Workers :
       /\ wk[w].fn = "kill_single"
       /\ wk[w].pc = "result"
       /\ wk[w].kp.term = "err"
       /\ wk[w].kp.waited
       /\ wk[w].kp.forced = "err"
       /\ wk[w].result = "Ok"

\* the stage that ended a kill_process call, from what it did
Classify(kp) ==
    IF kp.forced = "err" THEN "forced_failed"
    ELSE IF kp.forced = "ok" THEN "forced"
    ELSE "graceful"

KillSingleRank(pc) ==
    CASE pc = "kill_single" -> 3
      [] pc = "term" -> 2
      [] pc \in {"wait", "taskkill"} -> 1
      [] OTHER -> 0

\* C11 as stated: every kill_single_process call that has returned went
\* through exactly one grace wait.
C11_ExactlyOneWait ==
    \A w \in Workers :
       wk[w].fn = "kill_single" /\ wk[w].pc = "result" => wk[w].kp.waited

\* C11 amended: kill_single_process always terminates.  Every step of a
\* call brings it nearer to its return (no loop, no retry), a call that has
\* not returned can take a step, and a call returns after at most three
\* steps with at most one grace wait and at most one escalation: exactly
\* one grace wait when the unix kill_process was entered, none when the
\* rule set ignores the pid or on a windows build; the grace wait is
\* entered only before any wait and any re-check, and the escalation only
\* after the one wait.
C11_Terminates ==
    /\ [](\A w \in Workers :
            wk[w].fn = "kill_single" =>
               /\ wk[w].pc \in {"kill_single", "term", "wait", "taskkill",
                                 "result"}
               /\ wk[w].pc # "result" => ENABLED KillCall(w)
               /\ wk[w].pc \in {"kill_single", "term", "wait", "taskkill"}
                     => ~wk[w].kp.waited /\ wk[w].kp.forced = "none"
               /\ wk[w].pc = "result" =>
                     (wk[w].kp.waited <=>
                         platform = "unix" /\ wk[w].kp.pid # NoPid)
               /\ wk[w].kp.forced # "none" /\ platform = "unix"
                     => wk[w].kp.waited)
    /\ [][\A w \in Workers :
            wk[w].fn = "kill_single" /\ wk'[w] # wk[w] =>
               KillSingleRank(wk'[w].pc) < KillSingleRank(wk[w].pc)]_vars

\* C11 witness: a unix kill_single_process call has returned after its one
\* grace wait and its escalation, the SIGTERM having failed
C11_Witness ==
    \E w \in Workers :
       /\ platform = "unix"
       /\ wk[w].fn = "kill_single"
       /\ wk[w].pc = "result"
       /\ wk[w].kp.term = "err"
       /\ wk[w].kp.waited
       /\ wk[w].kp.forced = "ok"

\* C12: a bulk kill calls kill_process for every pid it resolved, in list
\* order: the pid taken next is always the head of the remaining list, each
\* finished kill_process call, failed or not, leads back to the loop with
\* the remaining list untouched, the loop can always go on, and the bulk
\* kill returns (Ok) only when the list is used up and one kill was
\* attempted per pid found.
C12_ContinuesAfterFailure ==
    /\ [](\A w \in Workers :
            wk[w].fn = "kill_all" =>
               /\ wk[w].pc \in {"term", "wait", "taskkill"} =>
                     Len(wk[w].outcomes) + Len(wk[w].pids) + 1 = wk[w].found
               /\ wk[w].pc = "loop" =>
                     /\ Len(wk[w].outcomes) + Len(wk[w].pids) = wk[w].found
                     /\ ENABLED KillLoop(w)
               /\ wk[w].pc = "result" /\ wk[w].found > 0 =>
                     /\ wk[w].pids = <<>>
                     /\ Len(wk[w].outcomes) = wk[w].found
                     /\ wk[w].result = "Ok")
    /\ [][\A w \in Workers :
            wk[w].fn = "kill_all" /\ wk'[w] # wk[w] =>
               /\ wk[w].pc = "loop" /\ wk[w].pids # <<>> =>
                     /\ wk'[w].kp.pid = Head(wk[w].pids)
                     /\ wk'[w].pids = Tail(wk[w].pids)
                     /\ wk'[w].pc \in {"term", "taskkill"}
               /\ wk[w].pc \in {"wait", "taskkill"} =>
                     /\ wk'[w].pc = "loop"
                     /\ wk'[w].pids = wk[w].pids
                     /\ wk'[w].outcomes =
                           Append(wk[w].outcomes, wk'[w].kp.log)]_vars

\* C12 witness: the kill of the first of two pids failed (no signal could
\* be delivered), the second pid was attempted after it, and the bulk kill
\* has returned
C12_Witness ==
    \E w \in Workers :
       /\ wk[w].fn = "kill_all"
       /\ wk[w].pc = "result"
       /\ Len(wk[w].outcomes) = 2
       /\ wk[w].outcomes[1] = "forced_failed"
       /\ wk[w].kp.pid # NoPid

\* the process tables in which a bulk kill with arguments a resolves pids
ResolvedIn(a, pids) ==
    {p \in Tables :
        IF platform = "windows"
        THEN KillAllPidsWindows(a, p, TRUE).pids = pids
        ELSE \E oks \in OkChoices(a) :
                LET e == KillAllPidsUnix(a, p, oks)
                IN ~e.err /\ e.pids = pids}

\* C13 as stated: a bulk kill signals no process that has a record, on a
\* requested port, which the rule set ignores by any of its five rules.
C13_NoIgnoredSignalled ==
    \A w \in Workers :
       /\ wk[w].fn = "kill_all"
       /\ wk[w].pc = "loop"
       /\ Len(wk[w].pids) = wk[w].found
       => \A p \in ResolvedIn(args, wk[w].pids) :
          \A rs \in RuleSetsOf(args) :
          \A q \in SeqSet(args.ports) \cap Ports :
             p[q] \in SeqSet(wk[w].pids) =>
                ~should_ignore_process(rs, ProcessRecord(p[q], q, Comm(p[q])))

(* ---------------------------------------------------------------------- *)
(* SpecCall: SpecKill, or one direct call of get_processes_on_ports whose  *)
(* lsof commands print any output, or of a SmartFilter function            *)
(* ---------------------------------------------------------------------- *)
MaxLines == 2

\* the port lists scanned: none, one chunk, two chunks, a large range
ScanPortLists ==
    {<<>>, <<1>>, <<1, 2>>, PortRange(2, MAX_PORTS_PER_LSOF + 1),
     PortRange(2, LARGE_RANGE_THRESHOLD + 1)}

\* lines lsof can print: well-formed ones, and ones with a pid or a port
\* that does not parse or with too few fields
ScanLines ==
    {Line(name, pid, port, 10) :
        name \in {"node", "python"}, pid \in Pids, port \in Ports}
       \cup {Line("node", -1, 1, 10), Line("node", 1, -1, 10),
             Line("node", 1, 1, 8)}

\* what one lsof command can give: Err when it cannot be run, else its
\* stdout, empty or a header and up to MaxLines lines
ScanOutputs ==
    {Err, Ok(<<>>)} \cup
    {Ok(<<Header>> \o ls) :
        ls \in UNION {[1..n -> ScanLines] : n \in 1..MaxLines}}

ScanCalls ==
    {[fn |-> "scan", pc |-> "start", ports |-> ports,
      ignore_ports |-> ip, ignore_processes |-> ipr, left |-> 0,
      queries |-> 0, asked |-> <<>>, failed |-> 0, stdout |-> <<>>,
      prev |-> EmptyMap,
      processes |-> EmptyMap, count |-> 0] :
        ports \in ScanPortLists, ip \in {{}, {2}}, ipr \in {{}, {"node"}}}

\* variant of EnterScan: an empty port list is not returned at once but
\* handled by the one lsof command of the large-range branch
EnterScanNoReturn(c) ==
    [c EXCEPT !.pc = "query",
              !.left = IF Len(c.ports) = 0 THEN 1 ELSE NumQueries(c.ports)]

\* if ports.is_empty() { return (0, HashMap::new()); }, else the lsof
\* commands of get_processes_on_ports_unix follow
EnterScan(c) ==
    IF Len(c.ports) = 0 THEN [c EXCEPT !.pc = "done"]
    ELSE [c EXCEPT !.pc = "query", !.left = NumQueries(c.ports)]

\* get_processes_on_ports up to the first lsof command
ScanEnter ==
    /\ call.fn = "scan"
    /\ call.pc = "start"
    /\ call' = EnterScan(call)
    /\ UNCHANGED <<platform, args, protected, mainVars, locks, wk>>

\* what the i-th lsof command of a scan or bulk kill over `ports` asks for:
\* every TCP listener (-iTCP), or the ports of the i-th chunk (-i :port ..)
LsofQuery(ports, i) ==
    IF Len(ports) > LARGE_RANGE_THRESHOLD THEN [all |-> TRUE, ports |-> <<>>]
    ELSE [all |-> FALSE, ports |-> Chunks(ports, MAX_PORTS_PER_LSOF)[i]]

\* one lsof command of get_processes_on_ports_unix and the parse of its
\* output into `processes`; after the last one (processes.len(), processes)
\* is returned
ScanQuery ==
    /\ call.fn = "scan"
    /\ call.pc = "query"
    /\ \E out \in ScanOutputs :
          LET processes ==
                 IF out = Err THEN call.processes
                 ELSE parse_lsof_output_filtered(out[1], SeqSet(call.ports),
                          call.ignore_ports, call.ignore_processes,
                          call.processes)
          IN call' = [call EXCEPT
                         !.queries = @ + 1,
                         !.asked = Append(@, LsofQuery(call.ports,
                                                       call.queries + 1)),
                         !.failed = IF out = Err THEN @ + 1 ELSE @,
                         !.stdout = IF out = Err THEN <<>> ELSE out[1],
                         !.prev = call.processes,
                         !.processes = processes,
                         !.left = @ - 1,
                         !.pc = IF call.left = 1 THEN "done" ELSE "query",
                         !.count = IF call.left = 1
                                   THEN Cardinality(DOMAIN processes) ELSE @]
    /\ UNCHANGED <<platform, args, protected, mainVars, locks, wk>>

\* the arguments of SmartFilter::new
RuleInputs ==
    [ignore_ports : {{}, {1}},
     ignore_processes : {{}, {<<"a">>}},
     ignore_patterns : {None, Some(<<<<"b", "*">>>>),
                        Some(<<<<"?">>, <<"c">>>>)},
     ignore_groups : {{}, {"G"}},
     only_groups : {None, Some({}), Some({"G"})}]

NewFilter(r) ==
    SmartFilter_new(r.ignore_ports, r.ignore_processes, r.ignore_patterns,
                    r.ignore_groups, r.only_groups)

\* the ProcessInfo records filtered, on port q
FilterRecords(q) ==
    [pid : {1}, port : {q}, name : {<<"a">>, <<"b", "c">>},
     command : {<<"a">>, <<"c">>},
     process_group : {None, Some("G"), Some("H")}]

\* HashMap<u16, ProcessInfo>: each record under its own port
FilterMaps ==
    UNION {{m \in [ks -> UNION {FilterRecords(q) : q \in Ports}] :
               \A q \in ks : m[q].port = q} : ks \in SUBSET Ports}

FilterCalls ==
    {[fn |-> "filter", pc |-> "start", rules |-> r, processes |-> m,
      rule |-> EmptyMap, out |-> EmptyMap] :
        r \in RuleInputs, m \in FilterMaps}

\* SmartFilter::new(..).unwrap() and filter.filter_processes(&mut processes);
\* rule[q]: the check of should_ignore_process that decided for processes[q]
FilterCall ==
    /\ call.fn = "filter"
    /\ call.pc = "start"
    /\ LET filter == NewFilter(call.rules)
       IN call' = IF filter = Err THEN [call EXCEPT !.pc = "err"]
                  ELSE [call EXCEPT
                           !.pc = "done",
                           !.rule = [q \in DOMAIN call.processes |->
                                        IgnoreRule(filter[1],
                                                   call.processes[q])],
                           !.out = filter_processes(filter[1],
                                                    call.processes)]
    /\ UNCHANGED <<platform, args, protected, mainVars, locks, wk>>

\* one more rule for one of the five lists
Additions ==
    [list : {"ignore_ports"}, elem : Ports]
       \cup [list : {"ignore_processes"}, elem : {<<"a">>, <<"b", "c">>}]
       \cup [list : {"ignore_patterns"}, elem : {<<"a">>, <<"b", "?">>}]
       \cup [list : {"ignore_groups", "only_groups"}, elem : {"G", "H"}]

\* the arguments r of SmartFilter::new with the rule `add` added to its list
AddRule(r, add) ==
    CASE add.list = "ignore_ports" ->
            [r EXCEPT !.ignore_ports = @ \cup {add.elem}]
      [] add.list = "ignore_processes" ->
            [r EXCEPT !.ignore_processes = @ \cup {add.elem}]
      [] add.list = "ignore_patterns" ->
            [r EXCEPT !.ignore_patterns =
                IF @ = None THEN Some(<<add.elem>>)
                ELSE Some(Append(@[1], add.elem))]
      [] add.list = "ignore_groups" ->
            [r EXCEPT !.ignore_groups = @ \cup {add.elem}]
      [] add.list = "only_groups" ->
            [r EXCEPT !.only_groups =
                IF @ = None THEN Some({add.elem})
                ELSE Some(@[1] \cup {add.elem})]

ExtendCalls ==
    {[fn |-> "extend", pc |-> "start", rules |-> r, add |-> add,
      record |-> rec, before |-> FALSE, after |-> FALSE] :
        r \in RuleInputs, add \in Additions,
        rec \in UNION {FilterRecords(q) : q \in Ports}}

\* should_ignore_process(record) of the filter built from `rules` and of the
\* filter built from `rules` with the rule `add` added
ExtendCall ==
    /\ call.fn = "extend"
    /\ call.pc = "start"
    /\ LET f1 == NewFilter(call.rules)
           f2 == NewFilter(AddRule(call.rules, call.add))
       IN call' = IF f1 = Err \/ f2 = Err THEN [call EXCEPT !.pc = "err"]
                  ELSE [call EXCEPT
                           !.pc = "done",
                           !.before = should_ignore_process(f1[1],
                                                            call.record),
                           !.after = should_ignore_process(f2[1],
                                                           call.record)]
    /\ UNCHANGED <<platform, args, protected, mainVars, locks, wk>>

MaxGlob == 3

\* the strings of up to MaxGlob characters over an alphabet
Strings(alphabet) == UNION {[1..n -> alphabet] : n \in 0..MaxGlob}

\* wildcard patterns and the names matched against them: names come from
\* the lines of a command's output and hold no line feed
GlobCalls ==
    {[fn |-> "glob", pc |-> "start", pattern |-> pat, text |-> t,
      compiled |-> Err, matched |-> FALSE] :
        pat \in Strings({"a", "*", "?", ".", "(", Backslash}),
        t \in Strings({"a", ".", "(", Backslash})}
       \cup
    {[fn |-> "glob", pc |-> "start", pattern |-> <<"n", "o", "d", "e", "*">>,
      text |-> t, compiled |-> Err, matched |-> FALSE] :
        t \in {<<"n", "o", "d", "e">>, <<"n", "o", "d", "e", "m", "o", "n">>,
               <<"g", "o">>, <<"r", "u", "s", "t">>}}

\* SmartFilter::new of one pattern, and pattern.is_match(text)
GlobCall ==
    /\ call.fn = "glob"
    /\ call.pc = "start"
    /\ LET compiled == Regex_new(regex_pattern(call.pattern))
       IN call' = IF compiled = Err THEN [call EXCEPT !.pc = "err"]
                  ELSE [call EXCEPT
                           !.pc = "done",
                           !.compiled = compiled,
                           !.matched = is_match(compiled[1], call.text)]
    /\ UNCHANGED <<platform, args, protected, mainVars, locks, wk>>

\* the presets a user saves, under a name of his own or under the name of
\* a built-in preset
UserPresets ==
    {PortPreset(name, "User-defined preset", ports, ignore_ports) :
        name \in {"mine", "dev"}, ports \in {<<3000>>, <<8080>>},
        ignore_ports \in {None, Some(<<5353>>)}}

\* runs of the program with --save-preset or --delete-preset, one after the
\* other, starting without a presets file; change: what the run does,
\* saved: the change the file was written after last
PresetCalls ==
    {[fn |-> "preset", pc |-> "start", file |-> None,
      mgr |-> PresetManager_new, change |-> [op |-> "none"],
      saved |-> [op |-> "none"]]}

\* let mut mgr = PresetManager::new()
PresetNew ==
    /\ call.fn = "preset"
    /\ call.pc = "start"
    /\ call' = [call EXCEPT !.pc = "new", !.mgr = PresetManager_new,
                            !.change = [op |-> "none"]]
    /\ UNCHANGED <<platform, args, protected, mainVars, locks, wk>>

\* mgr.load_presets()
PresetLoad ==
    /\ call.fn = "preset"
    /\ call.pc = "new"
    /\ call' = [call EXCEPT !.pc = "loaded",
                            !.mgr = load_presets(call.mgr, call.file)]
    /\ UNCHANGED <<platform, args, protected, mainVars, locks, wk>>

\* mgr.add_preset(preset), or mgr.remove_preset(&name) with exit(1) when it
\* returns None; a run without either option ends here as well
PresetChange ==
    /\ call.fn = "preset"
    /\ call.pc = "loaded"
    /\ \/ \E preset \in UserPresets :
             call' = [call EXCEPT
                         !.pc = "changed",
                         !.mgr = add_preset(call.mgr, preset),
                         !.change = [op |-> "add", preset |-> preset]]
       \/ \E name \in {"mine", "dev", "minimal"} :
             call' = IF name \in DOMAIN call.mgr.presets
                     THEN [call EXCEPT
                              !.pc = "changed",
                              !.mgr = remove_preset(call.mgr, name),
                              !.change = [op |-> "remove", name |-> name]]
                     ELSE [call EXCEPT !.pc = "start"]
       \/ call' = [call EXCEPT !.pc = "start"]
    /\ UNCHANGED <<platform, args, protected, mainVars, locks, wk>>

\* mgr.save_presets(), and the run ends
PresetSave ==
    /\ call.fn = "preset"
    /\ call.pc = "changed"
    /\ call' = [call EXCEPT !.pc = "start",
                            !.file = save_presets(call.mgr),
                            !.saved = call.change]
    /\ UNCHANGED <<platform, args, protected, mainVars, locks, wk>>

InitCall ==
    \/ InitKill
    \/ /\ platform = "unix"
       /\ args = MakeArgs(<<>>, {}, {})
       /\ protected = {}
       /\ InitMain
       /\ mpc = "off"
       /\ wk = [w \in Workers |-> IdleWorker]
       /\ call \in ScanCalls \cup FilterCalls \cup ExtendCalls \cup GlobCalls
                    \cup PresetCalls

NextCall ==
    \/ NextKill
    \/ ScanEnter
    \/ ScanQuery
    \/ FilterCall
    \/ ExtendCall
    \/ GlobCall
    \/ PresetNew
    \/ PresetLoad
    \/ PresetChange
    \/ PresetSave

SpecCall == InitCall /\ [][NextCall]_vars

\* a line both parsers accept: enough fields, a pid and a port that parse
WellFormed(l) == l.nparts >= 9 /\ l.pid # -1 /\ l.port # -1

\* C14: in a scan of a non-empty port list, whatever the lsof commands
\* print, every port key of the snapshot is a requested port, after every
\* query and at the return, and the count returned is the number of keys.
C14_OnlyRequestedPorts ==
    call.fn = "scan" /\ Len(call.ports) > 0 =>
       /\ DOMAIN call.processes \subseteq SeqSet(call.ports)
       /\ \A q \in DOMAIN call.processes : call.processes[q].port = q
       /\ call.pc = "done" =>
             call.count = Cardinality(DOMAIN call.processes)

\* C14 witness: lsof printed a well-formed line for a listener on a port
\* that was not requested and one for a requested port; the scan has
\* returned a snapshot that holds the requested port only
C14_Witness ==
    /\ call.fn = "scan"
    /\ call.pc = "done"
    /\ \E i \in 2..Len(call.stdout) :
          /\ WellFormed(call.stdout[i])
          /\ call.stdout[i].port \notin SeqSet(call.ports)
    /\ call.count = 1
    /\ DOMAIN call.processes = {2}

\* C15: a scan of an empty port list returns the empty snapshot with count
\* 0 and runs no lsof command; a bulk kill over an empty port list runs no
\* enumeration command, calls kill_process for no pid and returns Ok.
C15_EmptyPortList ==
    /\ call.fn = "scan" /\ Len(call.ports) = 0 =>
          /\ call.pc \in {"start", "done"}
          /\ call.queries = 0
          /\ call.processes = EmptyMap
          /\ call.count = 0
    /\ \A w \in Workers :
          wk[w].fn = "kill_all" /\ Len(args.ports) = 0 =>
             /\ wk[w].pc \in {"kill_all", "result"}
             /\ wk[w].tools = 0
             /\ wk[w].kp = NoKp
             /\ wk[w].found = 0
             /\ wk[w].outcomes = <<>>
             /\ wk[w].pc = "result" => wk[w].result = "Ok"

\* C15 witness: the scan of an empty port list has returned
C15_Witness ==
    /\ call.fn = "scan"
    /\ Len(call.ports) = 0
    /\ call.pc = "done"

\* the snapshot of the running scan after the first n lines of the last
\* lsof output were parsed
AfterLines(n) ==
    parse_lsof_output_filtered(SubSeq(call.stdout, 1, n), SeqSet(call.ports),
        call.ignore_ports, call.ignore_processes, call.prev)

\* C16 as stated: the record a scan keeps for a port is the first one it
\* observed: a record in the snapshot, from an earlier query or an earlier
\* line, is not replaced when a later line names the same port.
C16_FirstObservedWins ==
    call.fn = "scan" /\ call.queries > 0 =>
       \A n \in 1..Len(call.stdout) :
          \A q \in DOMAIN AfterLines(n - 1) :
             AfterLines(n)[q] = AfterLines(n - 1)[q]

(* ---------------------------------------------------------------------- *)
(* The tray event loop: PortKillApp::run                                   *)
(* ---------------------------------------------------------------------- *)
KillAllId == 0
QuitId == 1

TrayArgs == MakeArgs(<<1>>, {}, {})

\* menu ids that some menu, mapping, queued event or worker still refers to
IdsInUse ==
    DOMAIN menu.items \cup DOMAIN menu_id_to_port \cup SeqSet(chan)
       \cup {wk[w].event : w \in Workers} \cup {KillAllId, QuitId, NoEvent}

RECURSIVE NthFree(_, _, _)
NthFree(used, n, from) ==
    IF from \in used THEN NthFree(used, n, from + 1)
    ELSE IF n = 1 THEN from
    ELSE NthFree(used, n - 1, from + 1)

\* TrayMenu::create_menu_with_verbose: one item per process under an id no
\* older menu used, and the id -> port mapping of those items
NewItemId(valid, port) ==
    NthFree(IdsInUse, Cardinality({q \in DOMAIN valid : q <= port}), 2)

create_menu_with_verbose(valid) ==
    LET ids == {NewItemId(valid, q) : q \in DOMAIN valid}
        portOf(id) == CHOOSE q \in DOMAIN valid : NewItemId(valid, q) = id
    IN [menu |-> [id \in ids |-> valid[portOf(id)]],
        menu_id_to_port |-> [id \in ids |-> portOf(id)]]

\* variant of MayStartKill: the in-flight flag is not consulted
MayStartAlways(flag) == TRUE

\* if !is_killing_processes.load(Ordering::Relaxed)
MayStartKill(flag) == ~flag

\* variant of ChanAfterDrop: the event that cannot be served now is kept
\* for later
ChanAfterDropRequeue(c) == c

\* try_recv took the event out of the channel; a dropped event is gone
ChanAfterDrop(c) == Tail(c)

FreeWorker == CHOOSE w \in Workers :
                 /\ wk[w].pc = "idle"
                 /\ \A v \in Workers : wk[v].pc = "idle" => w <= v

\* if let Ok(event) = menu_event_receiver.try_recv() { .. }
\* (a callback that finds the channel empty changes nothing)
MenuEvent ==
    /\ mpc = "idle"
    /\ chan # <<>>
    /\ last_menu_interaction_elapsed' = 0
    /\ IF MayStartKill(is_killing_processes)
       THEN /\ \E w \in Workers : wk[w].pc = "idle"
            /\ is_killing_processes' = TRUE
            /\ wk' = [wk EXCEPT ![FreeWorker] =
                         [IdleWorker EXCEPT !.pc = "sleep100",
                                            !.event = Head(chan)]]
            /\ chan' = Tail(chan)
            /\ mpc' = "idle"
       ELSE /\ chan' = ChanAfterDrop(chan)
            /\ mpc' = "ignoring"
            /\ UNCHANGED <<is_killing_processes, wk>>
    /\ UNCHANGED <<envVars, last_check_elapsed,
                   last_menu_update_elapsed, last_process_count, tick,
                   current_processes, menu_id_to_port, menu, locks>>

\* info!("Menu event received but already killing processes, ignoring")
IgnoreEvent ==
    /\ mpc = "ignoring"
    /\ mpc' = "idle"
    /\ UNCHANGED <<envVars, chan, is_killing_processes,
                   last_check_elapsed, last_menu_update_elapsed,
                   last_menu_interaction_elapsed, last_process_count, tick,
                   current_processes, menu_id_to_port, menu, locks, wk>>

\* what the scan of a tick can yield now: get_processes_on_ports under
\* catch_unwind, a panic giving (0, HashMap::new())
ScanResults(a) ==
    {get_processes_on_ports(a, p, oks) : p \in Tables, oks \in OkChoices(a)}
       \cup {EmptyMap}

\* variant of CaughtPanic: a scan that panicked leaves the snapshot of the
\* tick before in place
CaughtPanicStale(current) == current

\* Err(e) => { error!(..); (0, HashMap::new()) } of catch_unwind
CaughtPanic(current) == EmptyMap

\* what the scan of a tick can give, with `failed` when no lsof command
\* could be run or the scan panicked
ScanOutcomes(a, current) ==
    {[processes |-> get_processes_on_ports(a, p, oks),
      failed |-> \A i \in DOMAIN oks : ~oks[i]] :
        p \in Tables, oks \in OkChoices(a)}
       \cup {[processes |-> CaughtPanic(current), failed |-> TRUE]}

\* the sets of pids is_process_still_running can report alive now
LiveSets ==
    {{pid \in Pids : is_process_still_running(p, pid, psOk[pid])} :
        p \in Tables, psOk \in [Pids -> BOOLEAN]}

\* if last_check.elapsed() >= 5 s { last_check = now; scan .. }
TickStart ==
    /\ mpc = "idle"
    /\ last_check_elapsed >= CheckInterval
    /\ last_check_elapsed' = 0
    /\ \E scan \in ScanOutcomes(args, current_processes) :
          tick' = [NoTick EXCEPT
                      !.scan_failed = scan.failed,
                      !.process_count = Cardinality(DOMAIN scan.processes),
                      !.processes = scan.processes]
    /\ mpc' = "lock_cp"
    /\ UNCHANGED <<envVars, chan, is_killing_processes,
                   last_menu_update_elapsed, last_menu_interaction_elapsed,
                   last_process_count, current_processes, menu_id_to_port,
                   menu, locks, wk>>

\* variant of UpdateCurrent: the tick locks menu_id_to_port first and
\* current_processes second, and drops both after the store
UpdateCurrentMapFirst ==
    /\ mpc = "lock_cp"
    /\ IF locks.menu_id_to_port # MainThread
       THEN /\ locks.menu_id_to_port = NoWorker
            /\ locks' = [locks EXCEPT !.menu_id_to_port = MainThread]
            /\ UNCHANGED <<current_processes, mpc>>
       ELSE /\ locks.current_processes = NoWorker
            /\ current_processes' = tick.processes
            /\ locks' = [locks EXCEPT !.menu_id_to_port = NoWorker]
            /\ mpc' = "decide"
    /\ UNCHANGED <<envVars, chan, is_killing_processes,
                   last_check_elapsed, last_menu_update_elapsed,
                   last_menu_interaction_elapsed, last_process_count, tick,
                   menu_id_to_port, menu, wk>>

\* if let Ok(mut guard) = current_processes.lock() { *guard = processes }
UpdateCurrent ==
    /\ mpc = "lock_cp"
    /\ locks.current_processes = NoWorker
    /\ current_processes' = tick.processes
    /\ mpc' = "decide"
    /\ UNCHANGED <<envVars, chan, is_killing_processes,
                   last_check_elapsed, last_menu_update_elapsed,
                   last_menu_interaction_elapsed, last_process_count, tick,
                   menu_id_to_port, menu, locks, wk>>

\* variant of ShouldUpdateMenu: the cooldown after a menu event is left out
ShouldUpdateMenuNoCooldown(t) ==
    /\ t.not_killing
    /\ t.process_count_changed
    /\ t.enough_time_passed

\* variant of ShouldUpdateMenu: the in-flight flag is left out
ShouldUpdateMenuWhileKilling(t) ==
    /\ t.process_count_changed
    /\ t.enough_time_passed
    /\ t.no_recent_interaction

\* if not_killing && process_count_changed && enough_time_passed
\*    && no_recent_interaction
ShouldUpdateMenu(t) ==
    /\ t.not_killing
    /\ t.process_count_changed
    /\ t.enough_time_passed
    /\ t.no_recent_interaction

\* variant of ValidProcesses: the scanned map is published as it is
ValidProcessesUnchecked(processes, live) == processes

\* processes.iter().filter(|(_, p)| is_process_still_running(p.pid))
ValidProcesses(processes, live) ==
    [q \in {x \in DOMAIN processes : processes[x].pid \in live} |->
        processes[q]]

\* the tray_icon lock, the four conditions, validation and menu creation
DecidePublish ==
    /\ mpc = "decide"
    /\ locks.tray_icon = NoWorker
    /\ LET t1 == [tick EXCEPT
                    !.process_count_changed =
                        (tick.process_count # last_process_count),
                    !.enough_time_passed =
                        (last_menu_update_elapsed >= MenuUpdateInterval),
                    !.not_killing = ~is_killing_processes,
                    !.no_recent_interaction =
                        (last_menu_interaction_elapsed >= InteractionCooldown)]
       IN IF ShouldUpdateMenu(t1)
          THEN \E live \in LiveSets, created \in BOOLEAN :
                 LET valid == ValidProcesses(tick.processes, live)
                     new == create_menu_with_verbose(valid)
                 IN IF DOMAIN valid = {}
                       THEN /\ last_process_count' = 0
                            /\ last_menu_update_elapsed' = 0
                            /\ tick' = NoTick
                            /\ mpc' = "idle"
                            /\ UNCHANGED locks
                       ELSE IF created
                       THEN /\ tick' = [t1 EXCEPT
                                   !.live = live,
                                   !.valid_processes = valid,
                                   !.new_menu = new.menu,
                                   !.new_menu_id_to_port = new.menu_id_to_port]
                            /\ locks' = [locks EXCEPT !.tray_icon = MainThread]
                            /\ mpc' = "detach"
                            /\ UNCHANGED <<last_process_count,
                                           last_menu_update_elapsed>>
                       ELSE /\ tick' = NoTick
                            /\ mpc' = "idle"
                            /\ UNCHANGED <<locks, last_process_count,
                                           last_menu_update_elapsed>>
          ELSE /\ tick' = NoTick
               /\ mpc' = "idle"
               /\ UNCHANGED <<locks, last_process_count,
                              last_menu_update_elapsed>>
    /\ UNCHANGED <<envVars, chan, is_killing_processes,
                   last_check_elapsed, last_menu_interaction_elapsed,
                   current_processes, menu_id_to_port, menu, wk>>

\* variant of Detach: the old menu is left attached
DetachInPlace ==
    /\ mpc = "detach"
    /\ mpc' = "settle"
    /\ UNCHANGED <<envVars, chan, is_killing_processes,
                   last_check_elapsed, last_menu_update_elapsed,
                   last_menu_interaction_elapsed, last_process_count, tick,
                   current_processes, menu_id_to_port, menu, locks, wk>>

\* icon.set_menu(None)
Detach ==
    /\ mpc = "detach"
    /\ menu' = NoMenu
    /\ mpc' = "settle"
    /\ UNCHANGED <<envVars, chan, is_killing_processes,
                   last_check_elapsed, last_menu_update_elapsed,
                   last_menu_interaction_elapsed, last_process_count, tick,
                   current_processes, menu_id_to_port, locks, wk>>

\* std::thread::sleep(Duration::from_millis(50))
Settle ==
    /\ mpc = "settle"
    /\ mpc' = "attach"
    /\ UNCHANGED <<envVars, chan, is_killing_processes,
                   last_check_elapsed, last_menu_update_elapsed,
                   last_menu_interaction_elapsed, last_process_count, tick,
                   current_processes, menu_id_to_port, menu, locks, wk>>

\* icon.set_menu(Some(Box::new(new_menu)))
Attach ==
    /\ mpc = "attach"
    /\ menu' = [attached |-> TRUE, items |-> tick.new_menu]
    /\ mpc' = "store_map"
    /\ UNCHANGED <<envVars, chan, is_killing_processes,
                   last_check_elapsed, last_menu_update_elapsed,
                   last_menu_interaction_elapsed, last_process_count, tick,
                   current_processes, menu_id_to_port, locks, wk>>

\* *menu_id_guard = new_menu_id_to_port; last_process_count = valid count;
\* last_menu_update = now; the tray_icon guard goes out of scope
StoreMap ==
    /\ mpc = "store_map"
    /\ locks.menu_id_to_port = NoWorker
    /\ menu_id_to_port' = tick.new_menu_id_to_port
    /\ last_process_count' = Cardinality(DOMAIN tick.valid_processes)
    /\ last_menu_update_elapsed' = 0
    /\ locks' = [locks EXCEPT !.tray_icon = NoWorker]
    /\ tick' = NoTick
    /\ mpc' = "idle"
    /\ UNCHANGED <<envVars, chan, is_killing_processes,
                   last_check_elapsed, last_menu_interaction_elapsed,
                   current_processes, menu, wk>>

(* ---------------------------------------------------------------------- *)
(* The kill worker thread spawned by the event loop                        *)
(* ---------------------------------------------------------------------- *)
\* sleep(100 ms); if let Ok(guard) = current_processes_clone.lock()
WorkerStart(w) ==
    /\ wk[w].pc = "sleep100"
    /\ locks.current_processes = NoWorker
    /\ locks' = [locks EXCEPT !.current_processes = w]
    /\ wk' = [wk EXCEPT ![w].pc = "dispatch"]
    /\ UNCHANGED <<envVars, mainVars>>

\* the dispatch on event.id, holding the current_processes guard
WorkerDispatch(w) ==
    /\ wk[w].pc = "dispatch"
    /\ LET menu_id == wk[w].event
       IN IF menu_id = KillAllId
          THEN /\ wk' = [wk EXCEPT ![w].fn = "kill_all", ![w].pc = "kill_all",
                                   ![w].event = NoEvent]
               /\ UNCHANGED <<locks, mpc>>
          ELSE IF menu_id = QuitId
          THEN /\ wk' = [wk EXCEPT ![w].event = NoEvent, ![w].pc = "exited"]
               /\ mpc' = "exited"
               /\ UNCHANGED locks
          ELSE /\ locks.menu_id_to_port = NoWorker
               /\ UNCHANGED mpc
               /\ IF menu_id \in DOMAIN menu_id_to_port
                  THEN LET port == menu_id_to_port[menu_id]
                       IN IF port \in DOMAIN current_processes
                          THEN /\ wk' = [wk EXCEPT
                                    ![w].event = NoEvent,
                                    ![w].fn = "kill_single",
                                    ![w].target = current_processes[port].pid,
                                    ![w].pc = "kill_single"]
                               /\ locks' = [locks EXCEPT !.menu_id_to_port = w]
                          ELSE /\ wk' = [wk EXCEPT ![w].event = NoEvent,
                                                   ![w].result = "Ok",
                                                   ![w].pc = "result"]
                               /\ UNCHANGED locks
                  ELSE /\ wk' = [wk EXCEPT ![w].event = NoEvent,
                                           ![w].fn = "kill_all",
                                           ![w].pc = "kill_all"]
                       /\ locks' = [locks EXCEPT !.menu_id_to_port = w]
    /\ UNCHANGED <<envVars, chan, is_killing_processes,
                   last_check_elapsed, last_menu_update_elapsed,
                   last_menu_interaction_elapsed, last_process_count, tick,
                   current_processes, menu_id_to_port, menu>>

\* `let result = ..;` ends: both guards are dropped; then match result
WorkerResult(w) ==
    /\ wk[w].pc = "result"
    /\ locks' = [locks EXCEPT
                    !.current_processes = NoWorker,
                    !.menu_id_to_port = IF @ = w THEN NoWorker ELSE @]
    /\ wk' = [wk EXCEPT ![w] =
                 [IdleWorker EXCEPT !.pc = IF wk[w].result = "Ok"
                                           THEN "sleep1s" ELSE "clear"]]
    /\ UNCHANGED <<envVars, mainVars>>

\* variant of WorkerClear: the thread ends without clearing the flag
WorkerClearKeepFlag(w) ==
    /\ wk[w].pc \in {"sleep1s", "clear"}
    /\ wk' = [wk EXCEPT ![w] = IdleWorker]
    /\ UNCHANGED <<envVars, mainVars, locks>>

\* Ok: sleep(1 s) then store(false); Err: store(false)
WorkerClear(w) ==
    /\ wk[w].pc \in {"sleep1s", "clear"}
    /\ is_killing_processes' = FALSE
    /\ wk' = [wk EXCEPT ![w] = IdleWorker]
    /\ UNCHANGED <<envVars, chan, mpc, last_check_elapsed,
                   last_menu_update_elapsed, last_menu_interaction_elapsed,
                   last_process_count, tick, current_processes,
                   menu_id_to_port, menu, locks>>

(* ---------------------------------------------------------------------- *)
(* The user and the clock                                                  *)
(* ---------------------------------------------------------------------- *)
\* a click on an item of the attached menu sends its id on the channel
UserClick ==
    /\ mpc # "exited"
    /\ menu.attached
    /\ Len(chan) < MaxChan
    /\ \E id \in {KillAllId, QuitId} \cup DOMAIN menu.items :
          chan' = Append(chan, id)
    /\ UNCHANGED <<envVars, is_killing_processes, mpc,
                   last_check_elapsed, last_menu_update_elapsed,
                   last_menu_interaction_elapsed, last_process_count, tick,
                   current_processes, menu_id_to_port, menu, locks, wk>>

\* Time passes.  An elapsed time is only ever compared with its threshold, so
\* it is kept as 0 (any duration below the threshold) or the threshold (any
\* duration that reached it); a step takes one elapsed time to its threshold.
AdvanceTime ==
    /\ mpc # "exited"
    /\ \/ /\ last_check_elapsed < CheckInterval
          /\ last_check_elapsed' = CheckInterval
          /\ UNCHANGED <<last_menu_update_elapsed,
                         last_menu_interaction_elapsed>>
       \/ /\ last_menu_update_elapsed < MenuUpdateInterval
          /\ last_menu_update_elapsed' = MenuUpdateInterval
          /\ UNCHANGED <<last_check_elapsed, last_menu_interaction_elapsed>>
       \/ /\ last_menu_interaction_elapsed < InteractionCooldown
          /\ last_menu_interaction_elapsed' = InteractionCooldown
          /\ UNCHANGED <<last_check_elapsed, last_menu_update_elapsed>>
    /\ UNCHANGED <<envVars, chan, is_killing_processes, mpc,
                   last_process_count, tick, current_processes,
                   menu_id_to_port, menu, locks, wk>>

Init ==
    /\ call = NoCall
    /\ platform = "unix"
    /\ args = TrayArgs
    /\ protected = {}
    /\ InitMain
    /\ mpc = "idle"
    /\ wk = [w \in Workers |-> IdleWorker]

\* the periodic tick of the event loop
TickStep ==
    \/ TickStart
    \/ UpdateCurrent
    \/ DecidePublish
    \/ Detach
    \/ Settle
    \/ Attach
    \/ StoreMap

MainThreadStep ==
    \/ MenuEvent
    \/ IgnoreEvent
    \/ TickStep

WorkerStep(w) ==
    \/ WorkerStart(w)
    \/ WorkerDispatch(w)
    \/ UnixKillCall(w)
    \/ WorkerResult(w)
    \/ WorkerClear(w)

Next ==
    \/ MainThreadStep
    \/ \E w \in Workers : WorkerStep(w)
    \/ UserClick
    \/ AdvanceTime

Spec == Init /\ [][Next]_vars

(* ---------------------------------------------------------------------- *)
(* SpecMonitor: the event loop watching two ports while nobody uses the    *)
(* menu                                                                    *)
(* ---------------------------------------------------------------------- *)
MonitorArgs == MakeArgs(<<1, 2>>, {}, {})

InitMonitor ==
    /\ call = NoCall
    /\ platform = "unix"
    /\ args = MonitorArgs
    /\ protected = {}
    /\ InitMain
    /\ mpc = "idle"
    /\ wk = [w \in Workers |-> IdleWorker]

NextMonitor ==
    \/ TickStep
    \/ AdvanceTime

SpecMonitor == InitMonitor /\ [][NextMonitor]_vars

(* ---------------------------------------------------------------------- *)
(* SpecLong: the tray event loop watching a range of more than 200 ports,  *)
(* of which port 2 is one and port 1 is none                               *)
(* ---------------------------------------------------------------------- *)
InitLong ==
    /\ call = NoCall
    /\ platform = "unix"
    /\ args = MakeArgs(PortRange(2, LARGE_RANGE_THRESHOLD + 1), {}, {})
    /\ protected = {}
    /\ InitMain
    /\ mpc = "idle"
    /\ wk = [w \in Workers |-> IdleWorker]

SpecLong == InitLong /\ [][Next]_vars

(* ---------------------------------------------------------------------- *)
(* Properties of the event loop (Spec, SpecMonitor)                        *)
(* ---------------------------------------------------------------------- *)
\* the kill worker threads that exist
Running == {w \in Workers : wk[w].pc # "idle"}

\* the worker is inside kill_all_processes or kill_single_process
InKill(w) == wk[w].pc \in {"kill_all", "kill_single", "loop", "term", "wait"}

\* C1: in every reachable state at most one kill worker exists, and one
\* exists exactly while the in-flight flag is set: a worker is spawned only
\* under a clear flag, after the flag was set, and the flag is cleared only
\* by that worker as its last step.
C1_AtMostOneWorker ==
    /\ Cardinality(Running) <= 1
    /\ is_killing_processes <=> Running # {}

\* C1 witness: a second menu request has arrived, and been refused, while
\* the only worker sleeps in the grace wait of its kill
C1_Witness ==
    /\ mpc = "ignoring"
    /\ \E w \in Workers : wk[w].pc = "wait"
    /\ Cardinality(Running) = 1

\* C2: a menu event received while the in-flight flag is set is taken out of
\* the channel and starts no worker, and a worker only ever starts in the
\* step that receives an event under a clear flag, for that event: so a
\* dropped event causes no kill later.
C2_DroppedNotQueued ==
    [][/\ (mpc # "ignoring" /\ mpc' = "ignoring") =>
             /\ is_killing_processes
             /\ chan # <<>>
             /\ chan' = Tail(chan)
             /\ wk' = wk
       /\ \A w \in Workers :
             (wk[w].pc = "idle" /\ wk'[w].pc # "idle") =>
                /\ ~is_killing_processes
                /\ chan # <<>>
                /\ wk'[w].event = Head(chan)
                /\ chan' = Tail(chan)]_vars

\* C2 witness: an event was dropped while a kill is finishing, and nothing
\* is queued
C2_Witness ==
    /\ mpc = "ignoring"
    /\ chan = <<>>
    /\ \E w \in Workers : wk[w].pc \in {"result", "sleep1s"}

\* C3 as stated: while a kill is executing, every step of a tick can
\* proceed: the tick never stands at a lock that the kill worker holds.
C3_TickNeverBlocked ==
    \A w \in Workers :
       InKill(w) =>
          /\ mpc = "lock_cp" => locks.current_processes # w
          /\ mpc = "store_map" => locks.menu_id_to_port # w

C5_TeardownBeforeRebuild ==
    [][/\ (menu' # menu /\ menu'.attached) =>
             /\ ~menu.attached
             /\ mpc = "attach"
             /\ menu'.items = tick.new_menu
       /\ (mpc # "settle" /\ mpc' = "settle") =>
             mpc = "detach" /\ menu' = NoMenu
       /\ (mpc # "attach" /\ mpc' = "attach") =>
             mpc = "settle" /\ menu' = menu /\ ~menu.attached
       /\ (menu_id_to_port' # menu_id_to_port) =>
             /\ mpc = "store_map"
             /\ menu.attached
             /\ menu.items = tick.new_menu
             /\ menu' = menu
             /\ menu_id_to_port' = tick.new_menu_id_to_port]_vars

\* C5 witness: the new menu is attached and the mapping is still the one of
\* the old menu
C5_Witness ==
    /\ mpc = "store_map"
    /\ menu.attached
    /\ menu.items = tick.new_menu
    /\ menu_id_to_port # EmptyMap
    /\ menu_id_to_port # tick.new_menu_id_to_port

\* C6 as stated: the pair a kill worker reads when it handles a click is
\* consistent: every port a menu id maps to is a key of the snapshot, which
\* holds for it the record published under that id.
C6_ConsistentPair ==
    \A w \in Workers :
       wk[w].pc = "dispatch" =>
          \A id \in DOMAIN menu_id_to_port :
             /\ menu_id_to_port[id] \in DOMAIN current_processes
             /\ id \in DOMAIN menu.items =>
                   current_processes[menu_id_to_port[id]] = menu.items[id]

\* C7: every record of a republished menu is a scanned record whose pid
\* passed the liveness re-check of that tick, the published count is at most
\* the scanned count of the tick, and the count recorded as published is the
\* validated count.
C7_ValidatedPublish ==
    [][(mpc = "store_map" /\ mpc' = "idle") =>
          /\ \A id \in DOMAIN menu.items :
                /\ menu.items[id].pid \in tick.live
                /\ menu.items[id] \in Range(tick.processes)
          /\ Cardinality(DOMAIN menu.items) <= tick.process_count
          /\ Cardinality(DOMAIN menu.items) =
                Cardinality({q \in DOMAIN tick.processes :
                                tick.processes[q].pid \in tick.live})
          /\ last_process_count' = Cardinality(DOMAIN menu.items)]_vars

\* C7 witness: a tick that scanned two processes publishes the one that
\* passed the re-check
C7_Witness ==
    /\ mpc = "store_map"
    /\ tick.process_count = 2
    /\ Cardinality(DOMAIN menu.items) = 1

\* C17: a scan in which no lsof command could be run, or which panicked,
\* gives the tick the empty snapshot with count 0; the event loop goes on
\* (some step of it is always possible), and whenever a tick is due, every
\* result a scan can have is a possible result of its scan, whatever
\* happened in the ticks before.
C17_ScanFailureNonFatal ==
    /\ tick.scan_failed =>
          tick.processes = EmptyMap /\ tick.process_count = 0
    /\ mpc # "exited"
    /\ ENABLED NextMonitor
    /\ mpc = "idle" /\ last_check_elapsed >= CheckInterval =>
          \A m \in ScanResults(args) :
             ENABLED (TickStart /\ tick'.processes = m)

\* C17 witness: after a tick that published a process, the scan of a later
\* tick failed, and that tick has gone on to store the empty snapshot
C17_Witness ==
    /\ tick.scan_failed
    /\ mpc = "decide"
    /\ current_processes = EmptyMap
    /\ last_process_count > 0

(* ---------------------------------------------------------------------- *)
(* Properties of SmartFilter (SpecCall)                                    *)
(* ---------------------------------------------------------------------- *)
\* a wildcard pattern as its documentation reads it: * is any run of
\* characters, ? is any one character, every other character is itself,
\* and the pattern covers the whole text
RECURSIVE GlobMatch(_, _)
GlobMatch(pattern, text) ==
    IF pattern = <<>> THEN text = <<>>
    ELSE IF Head(pattern) = "*"
    THEN \/ GlobMatch(Tail(pattern), text)
         \/ text # <<>> /\ GlobMatch(pattern, Tail(text))
    ELSE /\ text # <<>>
         /\ Head(pattern) = "?" \/ Head(pattern) = Head(text)
         /\ GlobMatch(Tail(pattern), Tail(text))

\* the five checks of a rule set r on a record, in their order
Checks(r, rec) ==
    <<rec.port \in r.ignore_ports,
      rec.name \in r.ignore_processes,
      /\ r.ignore_patterns # None
      /\ \E i \in 1..Len(r.ignore_patterns[1]) :
            \/ GlobMatch(r.ignore_patterns[1][i], rec.name)
            \/ GlobMatch(r.ignore_patterns[1][i], rec.command),
      /\ rec.process_group # None
      /\ rec.process_group[1] \in r.ignore_groups,
      /\ r.only_groups # None
      /\ \/ rec.process_group = None
         \/ rec.process_group[1] \notin r.only_groups[1]>>

\* C18: should_ignore_process is decided by the first of the five checks
\* (ignore port, ignore name, pattern on name or command, ignore group,
\* only-groups) that matches, and the record is visible when none does;
\* filter_processes removes exactly the ignored records and leaves every
\* other entry as it was, so that with only-groups set every record left
\* has a group in only-groups.
C18_ShouldIgnore ==
    call.fn = "filter" /\ call.pc = "done" =>
       /\ \A q \in DOMAIN call.processes :
             LET c == Checks(call.rules, call.processes[q])
             IN /\ call.rule[q] =
                      IF \E i \in 1..5 : c[i]
                      THEN CHOOSE i \in 1..5 :
                              c[i] /\ \A j \in 1..(i - 1) : ~c[j]
                      ELSE 0
                /\ q \in DOMAIN call.out <=> call.rule[q] = 0
       /\ DOMAIN call.out \subseteq DOMAIN call.processes
       /\ \A q \in DOMAIN call.out : call.out[q] = call.processes[q]
       /\ call.rules.only_groups # None =>
             \A q \in DOMAIN call.out :
                /\ call.out[q].process_group # None
                /\ call.out[q].process_group[1] \in call.rules.only_groups[1]

\* C18 witness: with only-groups {"G"} and no other rule matching, the
\* record of group "G" was kept and the record of group "H" was removed by
\* the only-groups check
C18_Witness ==
    /\ call.fn = "filter"
    /\ call.pc = "done"
    /\ call.rules.only_groups = Some({"G"})
    /\ DOMAIN call.processes = {1, 2}
    /\ call.rule[1] = 0
    /\ call.rule[2] = 5
    /\ DOMAIN call.out = {1}

\* C19 as stated: adding a rule to any of the five lists never turns a
\* record that was ignored into a visible one.
C19_Monotonic ==
    call.fn = "extend" /\ call.pc = "done" => (call.before => call.after)

\* C19 amended: should_ignore is monotonic in ignore-ports,
\* ignore-process-names, ignore-name-patterns and ignore-groups, and in
\* setting only-groups where none was set: such an addition never turns an
\* ignored record visible.  Adding a group to an only-groups list that is
\* set works the other way: it never turns a visible record ignored, and
\* can turn an ignored record visible.
C19_MonotonicButOnlyGroups ==
    call.fn = "extend" /\ call.pc = "done" =>
       IF call.add.list = "only_groups" /\ call.rules.only_groups # None
       THEN call.after => call.before
       ELSE call.before => call.after

\* C19 witness: a record that was visible is ignored after a pattern was
\* added to ignore-name-patterns
C19_Witness ==
    /\ call.fn = "extend"
    /\ call.pc = "done"
    /\ call.add.list = "ignore_patterns"
    /\ call.rules.ignore_patterns # None
    /\ ~call.before
    /\ call.after

\* C20: an ignore pattern matches a name exactly when the whole name
\* matches the pattern read as a wildcard pattern: * any run of characters,
\* the empty one included, ? exactly one character, every other character,
\* the regex metacharacters included, itself; and compiling a wildcard
\* pattern never fails.
C20_GlobAnchored ==
    call.fn = "glob" =>
       /\ call.pc # "err"
       /\ Regex_new(regex_pattern(call.pattern)) # Err
       /\ call.pc = "done" =>
             (call.matched <=> GlobMatch(call.pattern, call.text))

\* C20 witness: pattern node* was matched against nodemon and matches
C20_Witness ==
    /\ call.fn = "glob"
    /\ call.pc = "done"
    /\ call.pattern = <<"n", "o", "d", "e", "*">>
    /\ call.text = <<"n", "o", "d", "e", "m", "o", "n">>
    /\ call.matched

(* ---------------------------------------------------------------------- *)
(* Properties of PresetManager (SpecCall)                                  *)
(* ---------------------------------------------------------------------- *)
\* C21 as stated: a fresh PresetManager that has called load_presets returns
\* the preset p for p.name when the file was last written by a save_presets
\* that followed add_preset(p), also when p.name is the name of a built-in
\* preset; and when the file was last written after remove_preset(name), it
\* returns no user preset for that name (nothing, or the built-in preset).
C21_RoundTrip ==
    call.fn = "preset" /\ call.pc = "loaded" =>
       /\ call.saved.op = "add" =>
             /\ call.saved.preset.name \in DOMAIN call.mgr.presets
             /\ call.mgr.presets[call.saved.preset.name] = call.saved.preset
       /\ call.saved.op = "remove" =>
             (call.saved.name \in DOMAIN call.mgr.presets =>
                /\ call.saved.name \in DOMAIN DefaultPresets
                /\ call.mgr.presets[call.saved.name] =
                      DefaultPresets[call.saved.name])

(* ---------------------------------------------------------------------- *)
(* Properties of the scan strategy (SpecCall)                              *)
(* ---------------------------------------------------------------------- *)
\* C22: a scan of a non-empty list of n ports has run, when it returns, one
\* lsof command that lists every TCP listener if n > 200, its output
\* filtered against the requested ports; else ceil(n/100) commands, the
\* i-th asking for a chunk of at least one and at most 100 ports, every
\* requested port being asked for by exactly one command and no other port
\* by any.  The enumeration of a bulk kill on unix runs the same number of
\* commands over the same chunks.
C22_ScanStrategy ==
    /\ call.fn = "scan" /\ Len(call.ports) > 0 =>
          LET n == Len(call.ports)
              due == IF n > 200 THEN 1 ELSE (n + 99) \div 100
          IN /\ call.queries = Len(call.asked)
             /\ call.queries <= due
             /\ call.pc = "done" <=> call.queries = due
             /\ n > 200 =>
                   /\ \A i \in 1..Len(call.asked) : call.asked[i].all
                   /\ DOMAIN call.processes \subseteq SeqSet(call.ports)
             /\ n <= 200 =>
                   /\ \A i \in 1..Len(call.asked) :
                         /\ ~call.asked[i].all
                         /\ Len(call.asked[i].ports) \in 1..100
                         /\ SeqSet(call.asked[i].ports)
                               \subseteq SeqSet(call.ports)
                   /\ call.pc = "done" =>
                         \A q \in SeqSet(call.ports) :
                            Cardinality({i \in 1..Len(call.asked) :
                               q \in SeqSet(call.asked[i].ports)}) = 1
    /\ \A w \in Workers :
          /\ wk[w].fn = "kill_all"
          /\ platform = "unix"
          /\ wk[w].pc # "kill_all"
          /\ Len(args.ports) > 0
          => LET n == Len(args.ports)
                 chunks == Chunks(args.ports, MAX_PORTS_PER_LSOF)
             IN /\ wk[w].tools = IF n > 200 THEN 1 ELSE (n + 99) \div 100
                /\ n <= 200 =>
                      /\ wk[w].tools = Len(chunks)
                      /\ \A i \in 1..Len(chunks) : Len(chunks[i]) \in 1..100
                      /\ \A q \in SeqSet(args.ports) :
                            Cardinality({i \in 1..Len(chunks) :
                               q \in SeqSet(chunks[i])}) = 1

\* C22 witness: the scan of 101 ports has returned after two commands, the
\* second of which asked for the one port left over by the first
C22_Witness ==
    /\ call.fn = "scan"
    /\ call.pc = "done"
    /\ Len(call.ports) = 101
    /\ call.queries = 2
    /\ Len(call.asked[1].ports) = 100
    /\ call.asked[2].ports = <<call.ports[101]>>

\* C23: a line of lsof output with fewer than nine fields, with a pid that
\* is not an integer or with a port that is not a 16-bit integer is skipped
\* by the scan and by the bulk kill: the snapshot, and the list of pids to
\* kill, are the ones the same output without those lines gives, whatever
\* was collected before.
C23_ParseTolerance ==
    call.fn = "scan" /\ call.queries > 0 /\ call.stdout # <<>> =>
       LET kept == <<Head(call.stdout)>>
                      \o SelectSeq(Tail(call.stdout), WellFormed)
       IN /\ call.processes =
                parse_lsof_output_filtered(kept, SeqSet(call.ports),
                    call.ignore_ports, call.ignore_processes, call.prev)
          /\ \A before \in {<<>>, <<2>>} :
                extract_pids_from_lsof_output(call.stdout, SeqSet(call.ports),
                    call.ignore_ports, call.ignore_processes, before)
                = extract_pids_from_lsof_output(kept, SeqSet(call.ports),
                      call.ignore_ports, call.ignore_processes, before)

\* C23 witness: lsof printed a line that does not parse and after it a line
\* for a requested port; the scan has returned with the record of that line
C23_Witness ==
    /\ call.fn = "scan"
    /\ call.pc = "done"
    /\ Len(call.stdout) = 3
    /\ ~WellFormed(call.stdout[2])
    /\ WellFormed(call.stdout[3])
    /\ call.stdout[3].port \in DOMAIN call.processes
    /\ call.processes[call.stdout[3].port].pid = call.stdout[3].pid

(* ---------------------------------------------------------------------- *)
(* Properties of the kill worker thread (SpecLong, Spec)                   *)
(* ---------------------------------------------------------------------- *)
\* the steps a kill worker thread can still take, at most
WorkerRank(wr) ==
    CASE wr.pc = "sleep100" -> 1000
      [] wr.pc = "dispatch" -> 999
      [] wr.pc = "kill_all" -> 998
      [] wr.pc = "kill_single" -> 997
      [] wr.pc = "term" -> 3 * Len(wr.pids) + 5
      [] wr.pc = "wait" -> 3 * Len(wr.pids) + 4
      [] wr.pc = "loop" -> 3 * Len(wr.pids) + 3
      [] wr.pc = "result" -> 2
      [] wr.pc \in {"sleep1s", "clear"} -> 1
      [] OTHER -> 0

\* C24: no permanent lock-out.  While the in-flight flag is set the process
\* has exited (Quit) or a kill worker exists that can take its next step
\* whatever the event loop does; every step of a worker brings it nearer to
\* its end; a kill that returned Ok leads to the 1-second delay and one that
\* returned Err does not, and both end in the step that clears the flag, to
\* which a lookup that found no process leads as well; and under a clear
\* flag a menu request the event loop receives starts a worker.
C24_NoLockOut ==
    /\ [](/\ is_killing_processes =>
                \/ mpc = "exited"
                \/ \E w \in Workers : wk[w].pc # "idle"
          /\ \A w \in Workers :
                wk[w].pc \notin {"idle", "exited"} => ENABLED WorkerStep(w)
          /\ (~is_killing_processes /\ mpc = "idle" /\ chan # <<>>) =>
                ENABLED (MenuEvent /\ is_killing_processes'))
    /\ [][\A w \in Workers :
            wk'[w] # wk[w] /\ wk[w].pc # "idle" =>
               /\ WorkerRank(wk'[w]) < WorkerRank(wk[w])
               /\ wk[w].pc = "result" =>
                     wk'[w].pc = IF wk[w].result = "Ok" THEN "sleep1s"
                                 ELSE "clear"
               /\ wk[w].pc \in {"sleep1s", "clear"} =>
                     wk'[w].pc = "idle" /\ ~is_killing_processes'
               /\ wk'[w].pc = "idle" => wk[w].pc \in {"sleep1s", "clear"}]_vars

\* C24 witness: a bulk kill whose lsof command could not be run has
\* returned Err, and its worker is about to clear the flag without delay
C24_Witness ==
    \E w \in Workers :
       /\ wk[w].pc = "clear"
       /\ is_killing_processes

\* C25: deadlock freedom.  The event-loop thread and a kill worker never
\* both wait: whenever a worker exists and the event loop is inside a tick,
\* one of the two can take its next step.  The locks are taken in one
\* order: the event loop keeps no lock but tray_icon from one step to the
\* next and takes menu_id_to_port only under tray_icon; a worker never
\* holds tray_icon, takes current_processes holding nothing and
\* menu_id_to_port only while it holds current_processes.
C25_NoDeadlock ==
    /\ [](/\ \A w \in Workers :
                (wk[w].pc \notin {"idle", "exited"}
                    /\ mpc \notin {"idle", "exited"})
                => (ENABLED WorkerStep(w) \/ ENABLED MainThreadStep)
          /\ locks.current_processes # MainThread
          /\ locks.menu_id_to_port # MainThread
          /\ locks.tray_icon \in {NoWorker, MainThread}
          /\ \A w \in Workers :
                locks.menu_id_to_port = w => locks.current_processes = w)
    /\ [][/\ \A w \in Workers :
               /\ (locks'.current_processes = w /\ locks.current_processes # w)
                     => locks.menu_id_to_port # w
               /\ (locks'.menu_id_to_port = w /\ locks.menu_id_to_port # w)
                     => locks.current_processes = w
          /\ menu_id_to_port' # menu_id_to_port =>
                /\ locks.tray_icon = MainThread
                /\ locks.menu_id_to_port = NoWorker]_vars

\* C25 witness: the tick waits for current_processes while a worker, in the
\* grace wait of a single kill, holds it together with menu_id_to_port
C25_Witness ==
    /\ mpc = "lock_cp"
    /\ \E w \in Workers :
          /\ wk[w].pc = "wait"
          /\ locks.current_processes = w
          /\ locks.menu_id_to_port = w

\* C26 as stated: a click on the item of a process leads to a kill of one
\* pid at most, the pid the item shows in the published menu, and never to
\* a bulk kill: a worker that handles the id of a process item starts
\* kill_single_process for the pid of that item, or starts no kill.
C26_ClickKillsPublishedPid ==
    [][\A w \in Workers :
          (wk[w].pc = "dispatch" /\ wk'[w].pc # "dispatch"
              /\ wk[w].event \notin {KillAllId, QuitId})
          => /\ wk'[w].fn # "kill_all"
             /\ (wk'[w].fn = "kill_single"
                    /\ wk[w].event \in DOMAIN menu.items)
                   => wk'[w].target = menu.items[wk[w].event].pid]_vars

(* ---------------------------------------------------------------------- *)
(* Properties of the published view (SpecMonitor, Spec)                    *)
(* ---------------------------------------------------------------------- *)
\* C27 as stated, for one tick: with no kill in flight, no menu interaction
\* within the cooldown and the last menu update at least 10 s old, a tick
\* whose scan differs from the published menu goes on to republish.  (A
\* tick that does not leaves last_process_count equal to the scanned count,
\* so with the same processes every later tick decides the same and the
\* menu never shows them.)
C27_QuietTickPublishes ==
    (/\ mpc = "decide"
     /\ ~is_killing_processes
     /\ last_menu_update_elapsed >= MenuUpdateInterval
     /\ last_menu_interaction_elapsed >= InteractionCooldown
     /\ Range(menu.items) # Range(tick.processes))
    => ENABLED (DecidePublish /\ mpc' = "detach")

\* C29: a menu rebuild never overlaps a kill.  From the step in which a
\* tick decides to republish until the mapping of the new menu is stored,
\* the in-flight flag is clear, no kill worker exists, no lock is held by a
\* worker, and the event loop receives no menu event, so none can start a
\* worker; the events clicked meanwhile wait in the channel.
C29_RebuildNeverOverlapsKill ==
    /\ [](mpc \in {"detach", "settle", "attach", "store_map"} =>
             /\ ~is_killing_processes
             /\ \A w \in Workers : wk[w].pc = "idle"
             /\ locks.current_processes = NoWorker
             /\ locks.menu_id_to_port = NoWorker
             /\ ~ENABLED MenuEvent
             /\ \A w \in Workers : ~ENABLED WorkerStep(w))
    /\ [][(mpc \in {"detach", "settle", "attach", "store_map"}) =>
             /\ wk' = wk
             /\ is_killing_processes' = is_killing_processes
             /\ Len(chan') >= Len(chan)]_vars

\* C29 witness: the user clicked while the old menu was being detached; the
\* event waits in the channel while the new menu is attached
C29_Witness ==
    /\ mpc = "store_map"
    /\ chan # <<>>

(* ---------------------------------------------------------------------- *)
(* Properties relating scan, bulk kill and single kill (SpecCall, SpecKill)*)
(* ---------------------------------------------------------------------- *)
\* C28 as stated: from the same lsof output, requested ports and ignore
\* lists, the pids a bulk kill collects to signal are the pids of the
\* snapshot the scan returns, and no pid is collected twice.
C28_KillAllKillsWhatScanShows ==
    call.fn = "scan" /\ call.queries = 1 =>
       LET pids_to_kill ==
              extract_pids_from_lsof_output(call.stdout, SeqSet(call.ports),
                  call.ignore_ports, call.ignore_processes, <<>>)
       IN /\ SeqSet(pids_to_kill) =
                {call.processes[q].pid : q \in DOMAIN call.processes}
          /\ \A i, j \in 1..Len(pids_to_kill) :
                pids_to_kill[i] = pids_to_kill[j] => i = j

\* C30 as stated: single kill and bulk kill agree on the processes the
\* ignore lists protect.  For every process table in which a unix bulk kill
\* resolves its pid list, a pid that listens on a requested port is left
\* out of the list exactly when kill_single_process, its ps and lsof
\* commands having run, refuses to signal that pid.
C30_SingleAndBulkAgree ==
    \A w \in Workers :
       /\ platform = "unix"
       /\ wk[w].fn = "kill_all"
       /\ wk[w].pc = "loop"
       /\ Len(wk[w].pids) = wk[w].found
       => \A p \in ResolvedIn(args, wk[w].pids) :
          \A q \in SeqSet(args.ports) \cap Ports :
             p[q] # NoPid =>
                (p[q] \notin SeqSet(wk[w].pids)
                    <=> SingleIgnored(args, p, p[q], TRUE, TRUE))
====
